---- MODULE Spec2Model ----
(***************************************************************************)
(* A model of the factorio-rcon clients.                                   *)
(*                                                                         *)
(*  - Specification Spec: the blocking client RCONClient of                *)
(*    factorio_rcon/_factorio_rcon.py.  One caller, so every public call   *)
(*    is one action; the server's behaviour during the call (what each     *)
(*    send and each receive_packet does) is the action's input.            *)
(*  - Specification SpecBusy: the asynchronous client with the busy flag   *)
(*    (socket_locked) of factorio_rcon/factorio_rcon.py, with several      *)
(*    tasks interleaved at the await points of the code.                   *)
(*  - Specification SpecAsync: the asynchronous client AsyncRCONClient of  *)
(*    factorio_rcon/_factorio_rcon.py, which has no busy flag, with        *)
(*    several tasks interleaved at the await points of the code.           *)
(*  - Specification SpecIds: RCONClient with id_seq near 2**31 - 1.        *)
(*  - Specification SpecFrame: RCONClient and AsyncRCONClient of           *)
(*    factorio_rcon/_factorio_rcon.py with the server's answers given as   *)
(*    bytes: build_message, parse_message, receive_exactly and             *)
(*    receive_packet work on the bytes, connect and send_commands on what  *)
(*    receive_packet makes of them.                                        *)
(*                                                                         *)
(* The transport is the environment: socket close()/aclose() is taken to   *)
(* return normally, every other socket call may succeed or fail.           *)
(***************************************************************************)
EXTENDS Integers, Sequences, FiniteSets, TLC

VARIABLES
    rcon_socket,    \* the client's socket: None or the number of an OS socket
    rcon_failure,   \* the client's failure flag
    id_seq,         \* the client's sequence counter
    socket_locked,  \* the busy flag (factorio_rcon/factorio_rcon.py only)
    open_socks,     \* environment: the OS sockets that are open
    sock_count,     \* environment: how many sockets were created so far
    call,           \* Spec: the call that just ended, as its caller sees it
    lockout,        \* Spec: a Ready send_commands ended with an I/O error and
                    \*       connect was not called since
    just_closed,    \* Spec: the last call that ended was close()
    tasks,          \* SpecBusy: each task's position in the code and locals
    frame           \* SpecFrame: the last operation, on bytes, and its outcome

vars == <<rcon_socket, rcon_failure, id_seq, socket_locked, open_socks,
          sock_count, call, lockout, just_closed, tasks, frame>>

---------------------------------------------------------------------------
(* Bounds of the model *)

\* the largest batch of commands one send_commands call is given
MaxBatch == 2
\* how many times a behaviour may open a socket
MaxConnects == 2
\* send_commands is not started when it would take id_seq beyond this
MaxSeq == 3
\* SpecBusy: the number of tasks that call the asynchronous client
NumTasks == 2

\* the largest piece, short of a whole read, that a recv call returns
MaxChunk == 3

\* the number of calls made on the asynchronous client without busy flag
MaxCalls == 3

---------------------------------------------------------------------------
(* Program constants *)

None == 0
INT32_MAX == 2147483647
RESPONSE_VALUE == 0
EXECCOMMAND == 2
AUTH_RESPONSE == 2
AUTH == 3

\* Optional[str]: None is the empty tuple, a text t is <<t>>; a text is a
\* sequence of characters.
NoneStr == <<>>
Some(text) == <<text>>

WhiteSpace == {" ", "\n"}

\* the password and the command texts are opaque to the client
Password == <<"p", "w">>
Digit == <<"1", "2", "3", "4", "5">>
CmdText(key) == <<"c", Digit[key]>>

---------------------------------------------------------------------------
(* RCONSharedBase *)

\* (mutant) get_id that lets the counter overflow its 32 bits
get_id_wraps_negative(seq) == IF seq = INT32_MAX THEN -2147483647 - 1 ELSE seq + 1

\* (mutant) get_id that stays at 2**31 - 1
get_id_saturates(seq) == IF seq = INT32_MAX THEN seq ELSE seq + 1

\* get_id: the new value of id_seq, which is also the id returned
get_id(seq) == IF seq = INT32_MAX THEN 0 ELSE seq + 1

\* RCONMessage
RCONMessage(id, type, body) == [id |-> id, type |-> type, body |-> body]

\* parse_message's treatment of the body bytes: data[3].decode() if data[3]
\* else None
parse_body(data) == IF data = <<>> THEN NoneStr ELSE Some(data)

\* str.rstrip()
RECURSIVE rstrip(_)
rstrip(text) ==
    IF text # <<>> /\ text[Len(text)] \in WhiteSpace
    THEN rstrip(SubSeq(text, 1, Len(text) - 1))
    ELSE text

---------------------------------------------------------------------------
(* The packet codec of RCONSharedBase, on bytes (integers 0..255) *)

\* fixed_length: two int32s and the two terminating null bytes
fixed_length == 10

\* the characters of the model's texts and their code points; "U+0000",
\* "U+00E9" and "U+20AC" name NUL and characters of two and three UTF-8
\* bytes.  Texts with other characters are outside the model.
Chars ==
    {"\n", " ", "1", "2", "3", "4", "5", "c", "p", "w", "x",
     "U+0000", "U+00E9", "U+20AC"}

CodePoint(c) ==
    CASE c = "\n" -> 10 [] c = " " -> 32
      [] c = "1" -> 49 [] c = "2" -> 50 [] c = "3" -> 51 [] c = "4" -> 52
      [] c = "5" -> 53 [] c = "c" -> 99 [] c = "p" -> 112 [] c = "w" -> 119
      [] c = "x" -> 120
      [] c = "U+0000" -> 0 [] c = "U+00E9" -> 233 [] c = "U+20AC" -> 8364

CharOf(cp) == CHOOSE c \in Chars : CodePoint(c) = cp

\* the UTF-8 bytes of one code point
utf8_bytes(cp) ==
    IF cp < 128 THEN <<cp>>
    ELSE IF cp < 2048 THEN <<192 + (cp \div 64), 128 + (cp % 64)>>
    ELSE IF cp < 65536
    THEN <<224 + (cp \div 4096), 128 + ((cp \div 64) % 64), 128 + (cp % 64)>>
    ELSE <<240 + (cp \div 262144), 128 + ((cp \div 4096) % 64),
           128 + ((cp \div 64) % 64), 128 + (cp % 64)>>

\* str.encode("utf-8")
RECURSIVE encode(_)
encode(text) ==
    IF text = <<>> THEN <<>>
    ELSE utf8_bytes(CodePoint(Head(text))) \o encode(Tail(text))

\* a continuation byte of UTF-8
IsCont(data, i) == i <= Len(data) /\ data[i] \in 128..191

\* bytes.decode("utf-8") from the i-th byte on, after the characters in
\* text: the text, or a UnicodeDecodeError (strict: no overlong forms, no
\* surrogates, nothing above U+10FFFF)
RECURSIVE decode_from(_, _, _)
decode_from(data, i, text) ==
    IF i > Len(data) THEN [ok |-> TRUE, text |-> text]
    ELSE LET b == data[i]
             bad == [ok |-> FALSE, text |-> <<>>]
         IN  IF b < 128
             THEN decode_from(data, i + 1, Append(text, CharOf(b)))
             ELSE IF b \in 194..223
             THEN IF IsCont(data, i + 1)
                  THEN decode_from(data, i + 2,
                           Append(text, CharOf((b - 192) * 64 + (data[i + 1] - 128))))
                  ELSE bad
             ELSE IF b \in 224..239
             THEN IF /\ IsCont(data, i + 1) /\ IsCont(data, i + 2)
                     /\ (b = 224 => data[i + 1] >= 160)
                     /\ (b = 237 => data[i + 1] <= 159)
                  THEN decode_from(data, i + 3,
                           Append(text, CharOf((b - 224) * 4096
                                               + (data[i + 1] - 128) * 64
                                               + (data[i + 2] - 128))))
                  ELSE bad
             ELSE IF b \in 240..244
             THEN IF /\ IsCont(data, i + 1) /\ IsCont(data, i + 2)
                     /\ IsCont(data, i + 3)
                     /\ (b = 240 => data[i + 1] >= 144)
                     /\ (b = 244 => data[i + 1] <= 143)
                  THEN decode_from(data, i + 4,
                           Append(text, CharOf((b - 240) * 262144
                                               + (data[i + 1] - 128) * 4096
                                               + (data[i + 2] - 128) * 64
                                               + (data[i + 3] - 128))))
                  ELSE bad
             ELSE bad

decode(data) == decode_from(data, 1, <<>>)

\* struct.pack("<i", v): the four bytes of a signed 32-bit integer, least
\* significant first
pack_int32(v) ==
    <<v % 256, (v \div 256) % 256, (v \div 65536) % 256, (v \div 16777216) % 256>>

\* struct.unpack("<i", data): the signed 32-bit integer of four bytes
unpack_int32(data) ==
    data[1] + (256 * data[2]) + (65536 * data[3])
    + (16777216 * (IF data[4] >= 128 THEN data[4] - 256 ELSE data[4]))

\* int.from_bytes(data, "little"): the unsigned integer of up to four
\* bytes.  The greatest length that the streams of the model declare is
\* 2**31 - 1, the last byte of a length being 127 at most.
from_bytes(data) ==
    LET byte(i) == IF i <= Len(data) THEN data[i] ELSE 0
    IN  byte(1) + (256 * byte(2)) + (65536 * byte(3)) + (16777216 * byte(4))

\* (mutant) build_message with a length field that counts itself
build_message_length_counts_itself(message) ==
    LET encoded_body == IF message.body # NoneStr THEN encode(message.body[1])
                        ELSE <<>>
    IN  pack_int32(fixed_length + Len(encoded_body) + 4) \o pack_int32(message.id)
        \o pack_int32(message.type) \o encoded_body \o <<0, 0>>

\* build_message: struct.pack("<iii{n}sH", fixed_length + n, id, type,
\* encoded_body, 0) with n = len(encoded_body)
build_message(message) ==
    LET encoded_body == IF message.body # NoneStr THEN encode(message.body[1])
                        ELSE <<>>
    IN  pack_int32(fixed_length + Len(encoded_body)) \o pack_int32(message.id)
        \o pack_int32(message.type) \o encoded_body \o <<0, 0>>

\* (mutant) parse_message that decodes the body bytes whether empty or not
parse_message_empty_string(message, length) ==
    LET n == length - fixed_length
        body == SubSeq(message, 13, 12 + n)
    IN  IF n < 0 \/ Len(message) - 4 # length \/ ~decode(body).ok
        THEN [exc |-> "InvalidResponse", msg |-> "PARSE_FAILED", pkt |-> <<>>]
        ELSE [exc |-> "none", msg |-> "",
              pkt |-> RCONMessage(unpack_int32(SubSeq(message, 5, 8)),
                                  unpack_int32(SubSeq(message, 9, 12)),
                                  Some(decode(body).text))]

\* parse_message: struct.unpack("<iii{n}sH", message) with n = length -
\* fixed_length fails for n < 0 and for a message that is not length + 4
\* bytes long; the length field and the last two bytes are not looked at
parse_message(message, length) ==
    LET n == length - fixed_length
        body == SubSeq(message, 13, 12 + n)
    IN  IF n < 0 \/ Len(message) - 4 # length \/ ~decode(body).ok
        THEN [exc |-> "InvalidResponse", msg |-> "PARSE_FAILED", pkt |-> <<>>]
        ELSE [exc |-> "none", msg |-> "",
              pkt |-> RCONMessage(unpack_int32(SubSeq(message, 5, 8)),
                                  unpack_int32(SubSeq(message, 9, 12)),
                                  IF body # <<>> THEN Some(decode(body).text)
                                  ELSE NoneStr)]

---------------------------------------------------------------------------
(* The client state as a value, for the operators below *)

ClientState(sock, failure, seq, opened, count) ==
    [rcon_socket |-> sock, rcon_failure |-> failure, id_seq |-> seq,
     open_socks |-> opened, sock_count |-> count]

St == ClientState(rcon_socket, rcon_failure, id_seq, open_socks, sock_count)

Ready(st) == st.rcon_socket # None /\ ~st.rcon_failure

\* The outcome of running a piece of code: the state it leaves, the
\* exception it raised ("none": it returned) with its message, the value it
\* returned, the packets it wrote and the number of receive_packet calls.
Outcome(st, exc, msg, results, sent, nread) ==
    [st |-> st, exc |-> exc, msg |-> msg, results |-> results,
     sent |-> sent, nread |-> nread]

\* Events of the transport, as receive_packet meets them: a whole packet
\* with id, type and body bytes, the peer closing, a socket error, a
\* timeout, bytes that do not parse, an interrupt of the caller.
Event(kind, id, type, data) ==
    [kind |-> kind, id |-> id, type |-> type, data |-> data]
PacketEvent(id, type, data) == Event("packet", id, type, data)
ErrorEvent(kind) == Event(kind, 0, 0, <<>>)
ErrorEvents ==
    {ErrorEvent(k) : k \in {"closed", "error", "timeout", "garbled", "interrupt"}}

---------------------------------------------------------------------------
(* RCONClient (blocking), factorio_rcon/_factorio_rcon.py *)

\* (mutant) close() that closes the socket and keeps the reference to it
close_keeps_reference(st) ==
    IF st.rcon_socket # None
    THEN [st EXCEPT !.open_socks = @ \ {st.rcon_socket}]
    ELSE st

\* close()
close(st) ==
    IF st.rcon_socket # None
    THEN [st EXCEPT !.open_socks = @ \ {st.rcon_socket}, !.rcon_socket = None]
    ELSE st

\* (mutant) a decorator that makes no check before the call
alive_check_skipped(st) == "ok"

\* handle_socket_errors: the checks made before the call when
\* alive_socket_required
alive_check(st) ==
    IF st.rcon_socket = None THEN "NOT_CONNECTED"
    ELSE IF st.rcon_failure THEN "RCON_FAILED"
    ELSE "ok"

\* (mutant) an except clause that re-raises and does nothing else
on_exception_ignored(st) == st

\* (mutant) an except clause that marks the failure and does not close
on_exception_no_close(st) == [st EXCEPT !.rcon_failure = TRUE]

\* handle_socket_errors: the except BaseException clause
on_exception(st) == close([st EXCEPT !.rcon_failure = TRUE])

\* handle_socket_errors: the try statement around the wrapped function
guarded(out) ==
    IF out.exc = "none" THEN out ELSE [out EXCEPT !.st = on_exception(out.st)]

\* (mutant) receive_packet without the checks for an empty read: the peer's
\* close reaches parse_message as no bytes
receive_packet_close_unchecked(ev) ==
    CASE ev.kind = "packet" ->
            [exc |-> "none", msg |-> "",
             pkt |-> RCONMessage(ev.id, ev.type, parse_body(ev.data))]
      [] ev.kind \in {"closed", "garbled"} ->
            [exc |-> "InvalidResponse", msg |-> "PARSE_FAILED", pkt |-> ev]
      [] ev.kind = "timeout" ->
            [exc |-> "RCONReceiveError", msg |-> "CONN_TIMEOUT", pkt |-> ev]
      [] ev.kind = "error" ->
            [exc |-> "RCONReceiveError", msg |-> "RECEIVE_ERROR", pkt |-> ev]
      [] OTHER ->
            [exc |-> "KeyboardInterrupt", msg |-> "", pkt |-> ev]

\* receive_packet: what one call returns or raises on a transport event
receive_packet(ev) ==
    CASE ev.kind = "packet" ->
            [exc |-> "none", msg |-> "",
             pkt |-> RCONMessage(ev.id, ev.type, parse_body(ev.data))]
      [] ev.kind = "closed" ->
            [exc |-> "RCONClosed", msg |-> "CONN_CLOSED", pkt |-> ev]
      [] ev.kind = "garbled" ->
            [exc |-> "InvalidResponse", msg |-> "PARSE_FAILED", pkt |-> ev]
      [] ev.kind = "timeout" ->
            [exc |-> "RCONReceiveError", msg |-> "CONN_TIMEOUT", pkt |-> ev]
      [] ev.kind = "error" ->
            [exc |-> "RCONReceiveError", msg |-> "RECEIVE_ERROR", pkt |-> ev]
      [] OTHER ->
            [exc |-> "KeyboardInterrupt", msg |-> "", pkt |-> ev]

\* (mutant) the auth reply's id checked for -1 before its type
auth_verdict_id_first(response, seq) ==
    IF response.id = -1 THEN <<"InvalidPassword", "INVALID_PASS">>
    ELSE IF response.type # AUTH_RESPONSE THEN <<"InvalidResponse", "INVALID_TYPE">>
    ELSE IF response.id # seq THEN <<"InvalidResponse", "INVALID_ID">>
    ELSE <<"none", "">>

\* (mutant) the auth reply's id not compared with the id of the AUTH packet
auth_verdict_no_id_check(response, seq) ==
    IF response.type # AUTH_RESPONSE THEN <<"InvalidResponse", "INVALID_TYPE">>
    ELSE IF response.id = -1 THEN <<"InvalidPassword", "INVALID_PASS">>
    ELSE <<"none", "">>

\* connect: the checks of the auth reply
auth_verdict(response, seq) ==
    IF response.type # AUTH_RESPONSE THEN <<"InvalidResponse", "INVALID_TYPE">>
    ELSE IF response.id = -1 THEN <<"InvalidPassword", "INVALID_PASS">>
    ELSE IF response.id # seq THEN <<"InvalidResponse", "INVALID_ID">>
    ELSE <<"none", "">>

\* (mutant) connect without the except clause around the AUTH exchange: the
\* errors of send_packet and receive_packet leave connect as they are
connect_body_unwrapped(st, cs) ==
    LET s0 == close(st)
        sock == s0.sock_count + 1
        s1 == [s0 EXCEPT !.rcon_failure = FALSE, !.rcon_socket = sock,
                         !.open_socks = @ \cup {sock}, !.sock_count = sock]
        s2 == [s1 EXCEPT !.id_seq = 0]
        auth == RCONMessage(s2.id_seq, AUTH, Some(Password))
        got == receive_packet(cs.reply)
    IN  IF ~cs.tcp
        THEN Outcome(s1, "RCONConnectError", "CONNECT_SOCKET_ERROR", <<>>, <<>>, 0)
        ELSE IF ~cs.send
        THEN Outcome(s2, "RCONSendError", "SEND_ERROR", <<>>, <<>>, 0)
        ELSE IF got.exc # "none"
        THEN Outcome(s2, got.exc, got.msg, <<>>, <<auth>>, 1)
        ELSE LET v == auth_verdict(got.pkt, s2.id_seq)
             IN  Outcome(s2, v[1], v[2], <<>>, <<auth>>, 1)

\* (mutant) connect that keeps the counter of the connection before
connect_body_keeps_seq(st, cs) ==
    LET s0 == close(st)
        sock == s0.sock_count + 1
        s2 == [s0 EXCEPT !.rcon_failure = FALSE, !.rcon_socket = sock,
                         !.open_socks = @ \cup {sock}, !.sock_count = sock]
        auth == RCONMessage(s2.id_seq, AUTH, Some(Password))
        got == receive_packet(cs.reply)
    IN  IF ~cs.tcp
        THEN Outcome(s2, "RCONConnectError", "CONNECT_SOCKET_ERROR", <<>>, <<>>, 0)
        ELSE IF ~cs.send \/ got.exc \in {"RCONClosed", "InvalidResponse", "RCONReceiveError"}
        THEN Outcome(s2, "RCONConnectError", "CONNECT_COMMUNICATION_ERROR",
                     <<>>, IF cs.send THEN <<auth>> ELSE <<>>, IF cs.send THEN 1 ELSE 0)
        ELSE IF got.exc # "none"
        THEN Outcome(s2, got.exc, got.msg, <<>>, <<auth>>, 1)
        ELSE LET v == auth_verdict(got.pkt, s2.id_seq)
             IN  Outcome(s2, v[1], v[2], <<>>, <<auth>>, 1)

\* (mutant) connect that does not clear rcon_failure
connect_body_keeps_failure(st, cs) ==
    LET s0 == close(st)
        sock == s0.sock_count + 1
        s1 == [s0 EXCEPT !.rcon_socket = sock,
                         !.open_socks = @ \cup {sock}, !.sock_count = sock]
        s2 == [s1 EXCEPT !.id_seq = 0]
        auth == RCONMessage(s2.id_seq, AUTH, Some(Password))
        got == receive_packet(cs.reply)
    IN  IF ~cs.tcp
        THEN Outcome(s1, "RCONConnectError", "CONNECT_SOCKET_ERROR", <<>>, <<>>, 0)
        ELSE IF ~cs.send \/ got.exc \in {"RCONClosed", "InvalidResponse", "RCONReceiveError"}
        THEN Outcome(s2, "RCONConnectError", "CONNECT_COMMUNICATION_ERROR",
                     <<>>, IF cs.send THEN <<auth>> ELSE <<>>, IF cs.send THEN 1 ELSE 0)
        ELSE IF got.exc # "none"
        THEN Outcome(s2, got.exc, got.msg, <<>>, <<auth>>, 1)
        ELSE LET v == auth_verdict(got.pkt, s2.id_seq)
             IN  Outcome(s2, v[1], v[2], <<>>, <<auth>>, 1)

\* (mutant) connect that does not close the socket of the connection before
connect_body_no_close(st, cs) ==
    LET sock == st.sock_count + 1
        s1 == [st EXCEPT !.rcon_failure = FALSE, !.rcon_socket = sock,
                         !.open_socks = @ \cup {sock}, !.sock_count = sock]
        s2 == [s1 EXCEPT !.id_seq = 0]
        auth == RCONMessage(s2.id_seq, AUTH, Some(Password))
        got == receive_packet(cs.reply)
    IN  IF ~cs.tcp
        THEN Outcome(s1, "RCONConnectError", "CONNECT_SOCKET_ERROR", <<>>, <<>>, 0)
        ELSE IF ~cs.send \/ got.exc \in {"RCONClosed", "InvalidResponse", "RCONReceiveError"}
        THEN Outcome(s2, "RCONConnectError", "CONNECT_COMMUNICATION_ERROR",
                     <<>>, IF cs.send THEN <<auth>> ELSE <<>>, IF cs.send THEN 1 ELSE 0)
        ELSE IF got.exc # "none"
        THEN Outcome(s2, got.exc, got.msg, <<>>, <<auth>>, 1)
        ELSE LET v == auth_verdict(got.pkt, s2.id_seq)
             IN  Outcome(s2, v[1], v[2], <<>>, <<auth>>, 1)

\* connect: the function body.  cs says what the transport does: whether
\* the TCP connect succeeds, whether the AUTH packet is sent, and the event
\* receive_packet meets.
connect_body(st, cs) ==
    LET s0 == close(st)
        sock == s0.sock_count + 1
        s1 == [s0 EXCEPT !.rcon_failure = FALSE, !.rcon_socket = sock,
                         !.open_socks = @ \cup {sock}, !.sock_count = sock]
        s2 == [s1 EXCEPT !.id_seq = 0]
        auth == RCONMessage(s2.id_seq, AUTH, Some(Password))
        got == receive_packet(cs.reply)
    IN  IF ~cs.tcp
        THEN Outcome(s1, "RCONConnectError", "CONNECT_SOCKET_ERROR", <<>>, <<>>, 0)
        ELSE IF ~cs.send
        THEN Outcome(s2, "RCONConnectError", "CONNECT_COMMUNICATION_ERROR",
                     <<>>, <<>>, 0)
        ELSE IF got.exc \in {"RCONClosed", "InvalidResponse", "RCONReceiveError"}
        THEN Outcome(s2, "RCONConnectError", "CONNECT_COMMUNICATION_ERROR",
                     <<>>, <<auth>>, 1)
        ELSE IF got.exc # "none"
        THEN Outcome(s2, got.exc, got.msg, <<>>, <<auth>>, 1)
        ELSE LET v == auth_verdict(got.pkt, s2.id_seq)
             IN  Outcome(s2, v[1], v[2], <<>>, <<auth>>, 1)

\* (mutant) connect without the decorator
connect_undecorated(st, cs) == connect_body(st, cs)

\* connect, decorated with handle_socket_errors(alive_socket_required=False)
connect(st, cs) == guarded(connect_body(st, cs))

\* (mutant) one id minted for the whole batch
minted_once(seq, n) == [j \in 1..n |-> get_id(seq)]

\* send_commands: the ids minted by n successive get_id calls from seq
RECURSIVE minted(_, _)
minted(seq, n) ==
    IF n = 0 THEN <<>> ELSE <<get_id(seq)>> \o minted(get_id(seq), n - 1)

\* (mutant) id_map filled once after the sending loop, with the last id only
id_map_last_only(ids, cmds) ==
    [i \in {ids[j] : j \in {Len(ids)} \cap DOMAIN ids} |-> cmds[Len(ids)]]

\* send_commands: id_map after the sending loop: id_map[packet_id] = key,
\* a later entry with the same id replacing an earlier one
id_map_of(ids, cmds) ==
    [i \in {ids[j] : j \in 1..Len(ids)} |->
        cmds[CHOOSE j \in 1..Len(ids) :
                /\ ids[j] = i
                /\ \A k \in 1..Len(ids) : ids[k] = i => k <= j]]

\* a dict with d[key] = value set
dict_set(d, key, value) ==
    [x \in DOMAIN d \cup {key} |-> IF x = key THEN value ELSE d[x]]

\* send_commands: the value stored for a response
result_of(response) ==
    IF response.body = NoneStr THEN NoneStr ELSE Some(rstrip(response.body[1]))

\* (mutant) the loop over the responses skipping a response with an unknown id
RECURSIVE handle_responses_skip_unknown(_, _, _, _)
handle_responses_skip_unknown(responses, id_map, results, i) ==
    IF i > Len(responses) THEN [exc |-> "none", msg |-> "", results |-> results]
    ELSE LET response == responses[i]
         IN  IF response.id \notin DOMAIN id_map
             THEN handle_responses_skip_unknown(responses, id_map, results, i + 1)
             ELSE IF response.type # RESPONSE_VALUE
             THEN [exc |-> "InvalidResponse", msg |-> "INVALID_TYPE", results |-> <<>>]
             ELSE handle_responses_skip_unknown(responses, id_map,
                      dict_set(results, id_map[response.id], result_of(response)),
                      i + 1)

\* send_commands: the loop over the responses, from the i-th on
RECURSIVE handle_responses(_, _, _, _)
handle_responses(responses, id_map, results, i) ==
    IF i > Len(responses) THEN [exc |-> "none", msg |-> "", results |-> results]
    ELSE LET response == responses[i]
         IN  IF response.id \notin DOMAIN id_map
             THEN [exc |-> "InvalidResponse", msg |-> "INVALID_ID", results |-> <<>>]
             ELSE IF response.type # RESPONSE_VALUE
             THEN [exc |-> "InvalidResponse", msg |-> "INVALID_TYPE", results |-> <<>>]
             ELSE handle_responses(responses, id_map,
                      dict_set(results, id_map[response.id], result_of(response)),
                      i + 1)

\* send_commands: responses = [self.receive_packet() for _ in commands]:
\* the index of the first receive_packet call that raises, 0 when none does
first_raise(reads, n) ==
    LET bad == {i \in 1..n : i <= Len(reads) /\ receive_packet(reads[i]).exc # "none"}
    IN  IF bad = {} THEN 0 ELSE CHOOSE i \in bad : \A j \in bad : i <= j

\* send_commands: the function body.  cmds is the commands dict as the
\* sequence of its keys in iteration order (the command of key k is
\* CmdText(k)); sc says what the transport does: which send_packet call
\* fails (0: none) and the events the receive_packet calls meet.  Without
\* a socket the first send_packet call raises RCONNotConnected.
send_commands_body(st, cmds, sc) ==
    LET n == Len(cmds)
        ncalls == IF sc.send_fail = 0 THEN n ELSE sc.send_fail
        ids == minted(st.id_seq, ncalls)
        s1 == [st EXCEPT !.id_seq = IF ncalls = 0 THEN @ ELSE ids[ncalls]]
        packet(j) == RCONMessage(ids[j], EXECCOMMAND, Some(CmdText(cmds[j])))
        bad == first_raise(sc.reads, n)
    IN  IF st.rcon_socket = None /\ n > 0
        THEN Outcome([st EXCEPT !.id_seq = get_id(@)], "RCONNotConnected",
                     "NOT_CONNECTED", <<>>, <<>>, 0)
        ELSE IF sc.send_fail # 0
        THEN Outcome(s1, "RCONSendError",
                     IF sc.send_error = "TimeoutError" THEN "CONN_TIMEOUT"
                     ELSE "SEND_ERROR",
                     <<>>, [j \in 1..(ncalls - 1) |-> packet(j)], 0)
        ELSE LET sent == [j \in 1..n |-> packet(j)]
             IN  IF bad # 0
                 THEN LET got == receive_packet(sc.reads[bad])
                      IN  Outcome(s1, got.exc, got.msg, <<>>, sent, bad)
                 ELSE LET responses == [i \in 1..n |-> receive_packet(sc.reads[i]).pkt]
                          done == handle_responses(responses, id_map_of(ids, cmds),
                                                   <<>>, 1)
                      IN  Outcome(s1, done.exc, done.msg, done.results, sent, n)

\* send_commands, decorated with handle_socket_errors()
send_commands(st, cmds, sc) ==
    IF alive_check(st) # "ok"
    THEN Outcome(st, "RCONNotConnected", alive_check(st), <<>>, <<>>, 0)
    ELSE guarded(send_commands_body(st, cmds, sc))

\* send_command: send_commands({"command": command})["command"]
send_command(st, sc) ==
    LET out == send_commands(st, <<1>>, sc)
    IN  IF out.exc # "none" THEN out
        ELSE IF 1 \in DOMAIN out.results
        THEN [out EXCEPT !.results = out.results[1]]
        ELSE [out EXCEPT !.exc = "KeyError", !.results = <<>>]

\* (mutant) send_packet under the error guard of the decorator
send_packet_guarded(st, message, sendall) ==
    IF st.rcon_socket = None
    THEN Outcome(st, "RCONNotConnected", "NOT_CONNECTED", <<>>, <<>>, 0)
    ELSE IF sendall = "TimeoutError"
    THEN Outcome(on_exception(st), "RCONSendError", "CONN_TIMEOUT", <<>>, <<>>, 0)
    ELSE IF sendall # "returns"
    THEN Outcome(on_exception(st), "RCONSendError", "SEND_ERROR", <<>>, <<>>, 0)
    ELSE Outcome(st, "none", "", <<>>, <<message>>, 0)

\* send_packet called by the user: not decorated; sendall returns, or
\* raises TimeoutError or OSError
send_packet(st, message, sendall) ==
    IF st.rcon_socket = None
    THEN Outcome(st, "RCONNotConnected", "NOT_CONNECTED", <<>>, <<>>, 0)
    ELSE IF sendall = "TimeoutError"
    THEN Outcome(st, "RCONSendError", "CONN_TIMEOUT", <<>>, <<>>, 0)
    ELSE IF sendall # "returns"
    THEN Outcome(st, "RCONSendError", "SEND_ERROR", <<>>, <<>>, 0)
    ELSE Outcome(st, "none", "", <<>>, <<message>>, 0)

\* (mutant) receive_packet under the error guard of the decorator
receive_packet_call_guarded(st, ev) ==
    IF st.rcon_socket = None
    THEN Outcome(st, "RCONNotConnected", "NOT_CONNECTED", <<>>, <<>>, 0)
    ELSE LET got == receive_packet(ev)
         IN  guarded(Outcome(st, got.exc, got.msg,
                             IF got.exc = "none" THEN got.pkt ELSE <<>>, <<>>, 1))

\* receive_packet called by the user: not decorated; the check for a
\* socket, then the read, whose event is ev; the value returned is the
\* message
receive_packet_call(st, ev) ==
    IF st.rcon_socket = None
    THEN Outcome(st, "RCONNotConnected", "NOT_CONNECTED", <<>>, <<>>, 0)
    ELSE LET got == receive_packet(ev)
         IN  Outcome(st, got.exc, got.msg,
                     IF got.exc = "none" THEN got.pkt ELSE <<>>, <<>>, 1)

\* __enter__, decorated with handle_socket_errors(alive_socket_required=False)
enter(st, cs) ==
    IF st.rcon_socket = None \/ st.rcon_failure
    THEN guarded(connect(st, cs))
    ELSE Outcome(st, "none", "", <<>>, <<>>, 0)

\* (mutant) __exit__ that leaves the connection as it is
exit_keeps_connection(st) == st

\* __exit__
exit(st) == close(st)

---------------------------------------------------------------------------
(* Reading packets from the byte stream of a socket *)

\* what a socket delivers to the reads of one call: the bytes data, and
\* after them the peer's close ("closed"), a socket error ("error") or a
\* timeout ("timeout")
Stream(data, ending) == [data |-> data, ending |-> ending]
Endings == {"closed", "error", "timeout"}

\* the exception of a read on a stream that is exhausted and not closed
Raised(stream) == IF stream.ending = "timeout" THEN "TimeoutError" ELSE "OSError"

\* a prefix and a suffix of a sequence
Take(seq, k) == SubSeq(seq, 1, k)
Drop(seq, k) == SubSeq(seq, k + 1, Len(seq))

\* (mutant) receive_exactly that returns what it has read when the peer
\* closes
RCONClient_receive_exactly_partial(stream, size) ==
    IF Len(stream.data) >= size
    THEN [exc |-> "none", buffer |-> Take(stream.data, size),
          rest |-> Stream(Drop(stream.data, size), stream.ending)]
    ELSE IF stream.ending = "closed"
    THEN [exc |-> "none", buffer |-> stream.data, rest |-> Stream(<<>>, stream.ending)]
    ELSE [exc |-> Raised(stream), buffer |-> <<>>, rest |-> Stream(<<>>, stream.ending)]

\* RCONClient.receive_exactly: size bytes; b"" when recv returns b"" (the
\* peer closed) before size bytes were read
RCONClient_receive_exactly(stream, size) ==
    IF Len(stream.data) >= size
    THEN [exc |-> "none", buffer |-> Take(stream.data, size),
          rest |-> Stream(Drop(stream.data, size), stream.ending)]
    ELSE IF stream.ending = "closed"
    THEN [exc |-> "none", buffer |-> <<>>, rest |-> Stream(<<>>, stream.ending)]
    ELSE [exc |-> Raised(stream), buffer |-> <<>>, rest |-> Stream(<<>>, stream.ending)]

\* AsyncRCONClient.receive_exactly: size bytes; receive() raises
\* EndOfStream when the peer closed
AsyncRCONClient_receive_exactly(stream, size) ==
    IF Len(stream.data) >= size
    THEN [exc |-> "none", buffer |-> Take(stream.data, size),
          rest |-> Stream(Drop(stream.data, size), stream.ending)]
    ELSE IF stream.ending = "closed"
    THEN [exc |-> "EndOfStream", buffer |-> <<>>, rest |-> Stream(<<>>, stream.ending)]
    ELSE [exc |-> Raised(stream), buffer |-> <<>>, rest |-> Stream(<<>>, stream.ending)]

\* the result of a receive_packet call: the exception or the packet, and
\* the stream left for the next call
Received(exc, msg, pkt, rest) == [exc |-> exc, msg |-> msg, pkt |-> pkt, rest |-> rest]

\* RCONClient.receive_packet
RCONClient_receive_packet(stream) ==
    LET head == RCONClient_receive_exactly(stream, 4)
        length == from_bytes(head.buffer)
        read_data == RCONClient_receive_exactly(head.rest, length)
        parsed == parse_message(head.buffer \o read_data.buffer, length)
    IN  IF head.exc = "TimeoutError"
        THEN Received("RCONReceiveError", "CONN_TIMEOUT", <<>>, head.rest)
        ELSE IF head.exc # "none"
        THEN Received("RCONReceiveError", "RECEIVE_ERROR", <<>>, head.rest)
        ELSE IF head.buffer = <<>>
        THEN Received("RCONClosed", "CONN_CLOSED", <<>>, head.rest)
        ELSE IF read_data.exc = "TimeoutError"
        THEN Received("RCONReceiveError", "CONN_TIMEOUT", <<>>, read_data.rest)
        ELSE IF read_data.exc # "none"
        THEN Received("RCONReceiveError", "RECEIVE_ERROR", <<>>, read_data.rest)
        ELSE IF read_data.buffer = <<>>
        THEN Received("RCONClosed", "CONN_CLOSED", <<>>, read_data.rest)
        ELSE Received(parsed.exc, parsed.msg, parsed.pkt, read_data.rest)

\* AsyncRCONClient.receive_packet
AsyncRCONClient_receive_packet(stream) ==
    LET head == AsyncRCONClient_receive_exactly(stream, 4)
        length == from_bytes(head.buffer)
        read_data == AsyncRCONClient_receive_exactly(head.rest, length)
        parsed == parse_message(head.buffer \o read_data.buffer, length)
        first_exc == IF head.exc # "none" THEN head.exc ELSE read_data.exc
    IN  IF first_exc = "EndOfStream"
        THEN Received("RCONClosed", "CONN_CLOSED", <<>>, Stream(<<>>, stream.ending))
        ELSE IF first_exc # "none"
        THEN Received("RCONReceiveError", "RECEIVE_ERROR", <<>>,
                      Stream(<<>>, stream.ending))
        ELSE Received(parsed.exc, parsed.msg, parsed.pkt, read_data.rest)

\* the two clients
Variants == {"RCONClient", "AsyncRCONClient"}

receive_packet_of(variant, stream) ==
    IF variant = "RCONClient" THEN RCONClient_receive_packet(stream)
    ELSE AsyncRCONClient_receive_packet(stream)

\* the outcome of a receive_packet call as the event the callers of
\* receive_packet meet
event_of(got) ==
    CASE got.exc = "none" ->
            PacketEvent(got.pkt.id, got.pkt.type,
                        IF got.pkt.body = NoneStr THEN <<>> ELSE got.pkt.body[1])
      [] got.exc = "RCONClosed" -> ErrorEvent("closed")
      [] got.exc = "InvalidResponse" -> ErrorEvent("garbled")
      [] got.msg = "CONN_TIMEOUT" -> ErrorEvent("timeout")
      [] OTHER -> ErrorEvent("error")

\* the events of up to n successive receive_packet calls on a stream: the
\* calls stop at the first that raises
RECURSIVE read_events(_, _, _)
read_events(variant, stream, n) ==
    IF n = 0 THEN <<>>
    ELSE LET got == receive_packet_of(variant, stream)
         IN  IF got.exc # "none" THEN <<event_of(got)>>
             ELSE <<event_of(got)>> \o read_events(variant, got.rest, n - 1)

---------------------------------------------------------------------------
(* receive_packet when the transport delivers the stream in pieces *)

RECV_SIZE == 4096

Min(a, b) == IF a <= b THEN a ELSE b

\* what a recv call at most returns: the pieces the bytes arrive in, one
\* size for each successive call, the sizes taken in turn for ever
ChunkSizes == (1..MaxChunk) \cup {RECV_SIZE}
Schedules ==
    {<<a>> : a \in ChunkSizes} \cup {<<a, b>> : a, b \in ChunkSizes}

\* the result of receive_exactly: the exception or the buffer, the stream
\* after it, and the schedule as the next recv call meets it
Exactly(exc, buffer, rest, chunks) ==
    [exc |-> exc, buffer |-> buffer, rest |-> rest, chunks |-> chunks]

\* (mutant) the loop of receive_exactly asking for RECV_SIZE bytes at each
\* recv call
RECURSIVE receive_exactly_in_chunks_greedy(_, _, _, _, _)
receive_exactly_in_chunks_greedy(variant, stream, chunks, size, buffer) ==
    IF Len(buffer) >= size THEN Exactly("none", buffer, stream, chunks)
    ELSE IF stream.data = <<>>
    THEN IF stream.ending # "closed" THEN Exactly(Raised(stream), <<>>, stream, chunks)
         ELSE IF variant = "RCONClient" THEN Exactly("none", <<>>, stream, chunks)
         ELSE Exactly("EndOfStream", <<>>, stream, chunks)
    ELSE LET k == Min(Min(RECV_SIZE, Head(chunks)), Len(stream.data))
         IN  receive_exactly_in_chunks_greedy(variant,
                 Stream(Drop(stream.data, k), stream.ending),
                 Tail(chunks) \o <<Head(chunks)>>,
                 size, buffer \o Take(stream.data, k))

\* the loop of receive_exactly, buffer being what was read so far: recv is
\* asked for min(size - len(buffer), RECV_SIZE) bytes and returns at least
\* one byte and no more than asked for, than the piece that arrived and
\* than the stream holds; on a stream that is exhausted it returns b""
\* (RCONClient: receive_exactly returns b"") or raises EndOfStream
\* (AsyncRCONClient), or fails with a socket error or a timeout
RECURSIVE receive_exactly_in_chunks(_, _, _, _, _)
receive_exactly_in_chunks(variant, stream, chunks, size, buffer) ==
    IF Len(buffer) >= size THEN Exactly("none", buffer, stream, chunks)
    ELSE IF stream.data = <<>>
    THEN IF stream.ending # "closed" THEN Exactly(Raised(stream), <<>>, stream, chunks)
         ELSE IF variant = "RCONClient" THEN Exactly("none", <<>>, stream, chunks)
         ELSE Exactly("EndOfStream", <<>>, stream, chunks)
    ELSE LET want == Min(size - Len(buffer), RECV_SIZE)
             k == Min(Min(want, Head(chunks)), Len(stream.data))
         IN  receive_exactly_in_chunks(variant,
                 Stream(Drop(stream.data, k), stream.ending),
                 Tail(chunks) \o <<Head(chunks)>>,
                 size, buffer \o Take(stream.data, k))

\* receive_packet of either client on a stream delivered in pieces
receive_packet_in_chunks(variant, stream, chunks) ==
    LET head == receive_exactly_in_chunks(variant, stream, chunks, 4, <<>>)
        length == from_bytes(head.buffer)
        read_data == receive_exactly_in_chunks(variant, head.rest, head.chunks,
                                               length, <<>>)
        parsed == parse_message(head.buffer \o read_data.buffer, length)
        timed_out(got) == variant = "RCONClient" /\ got.exc = "TimeoutError"
    IN  IF head.exc = "EndOfStream"
        THEN Received("RCONClosed", "CONN_CLOSED", <<>>, head.rest)
        ELSE IF timed_out(head)
        THEN Received("RCONReceiveError", "CONN_TIMEOUT", <<>>, head.rest)
        ELSE IF head.exc # "none"
        THEN Received("RCONReceiveError", "RECEIVE_ERROR", <<>>, head.rest)
        ELSE IF variant = "RCONClient" /\ head.buffer = <<>>
        THEN Received("RCONClosed", "CONN_CLOSED", <<>>, head.rest)
        ELSE IF read_data.exc = "EndOfStream"
        THEN Received("RCONClosed", "CONN_CLOSED", <<>>, read_data.rest)
        ELSE IF timed_out(read_data)
        THEN Received("RCONReceiveError", "CONN_TIMEOUT", <<>>, read_data.rest)
        ELSE IF read_data.exc # "none"
        THEN Received("RCONReceiveError", "RECEIVE_ERROR", <<>>, read_data.rest)
        ELSE IF variant = "RCONClient" /\ read_data.buffer = <<>>
        THEN Received("RCONClosed", "CONN_CLOSED", <<>>, read_data.rest)
        ELSE Received(parsed.exc, parsed.msg, parsed.pkt, read_data.rest)

---------------------------------------------------------------------------
(* What the callers and the server may do in Spec *)

\* what the transport does during one call: connect uses tcp, send and
\* reply, send_commands uses send_fail, reads and send_error (what the
\* sendall call that fails raises: OSError or TimeoutError)
Script(tcp, send, reply, send_fail, reads) ==
    [tcp |-> tcp, send |-> send, reply |-> reply,
     send_fail |-> send_fail, reads |-> reads, send_error |-> "OSError"]

NoScript == Script(FALSE, FALSE, ErrorEvent("closed"), 0, <<>>)

AuthEvents ==
    {PacketEvent(i, t, <<>>) : i \in {-1, 0, 1},
                               t \in {RESPONSE_VALUE, AUTH_RESPONSE, AUTH}}
    \cup ErrorEvents

ConnectScripts ==
    {Script(FALSE, FALSE, ErrorEvent("closed"), 0, <<>>),
     Script(TRUE, FALSE, ErrorEvent("closed"), 0, <<>>)}
    \cup {Script(TRUE, TRUE, e, 0, <<>>) : e \in AuthEvents}

\* response bodies on the wire: empty, a bare newline, a text ending in a
\* newline
ResponseBodies == {<<>>, <<"\n">>, <<"x", "\n">>}

\* the packets a server may answer a batch with: for each id of the batch,
\* and for the id last used before it (not an id of the batch), every body
\* as a RESPONSE_VALUE, and one packet of another type
ResponsePackets(ids) ==
    {PacketEvent(i, RESPONSE_VALUE, b) : i \in ids, b \in ResponseBodies}
    \cup {PacketEvent(i, AUTH_RESPONSE, <<"x", "\n">>) : i \in ids}

\* n reads: n packets, or fewer packets and then an error
RECURSIVE ReadScripts(_, _)
ReadScripts(n, packets) ==
    IF n = 0 THEN {<<>>}
    ELSE {<<e>> : e \in ErrorEvents}
         \cup {<<p>> \o r : p \in packets, r \in ReadScripts(n - 1, packets)}

\* (a call on a client that is not Ready meets no transport event)
SendScripts(st, n) ==
    LET ids == {st.id_seq} \cup {minted(st.id_seq, n)[j] : j \in 1..n}
    IN  IF ~Ready(st) THEN {NoScript} ELSE
        {[Script(TRUE, TRUE, ErrorEvent("closed"), f, <<>>) EXCEPT !.send_error = e] :
            f \in 1..n, e \in {"OSError", "TimeoutError"}}
        \cup {Script(TRUE, TRUE, ErrorEvent("closed"), 0, r) :
                 r \in ReadScripts(n, ResponsePackets(ids))}

\* the commands dicts: the sequences of distinct keys, at most MaxBatch long
Keys == 1..MaxBatch
RECURSIVE Batches(_)
Batches(n) ==
    IF n = 0 THEN {<<>>}
    ELSE Batches(n - 1)
         \cup {Append(b, k) : b \in {c \in Batches(n - 1) : Len(c) = n - 1},
                              k \in Keys}
DistinctBatches ==
    {b \in Batches(MaxBatch) : \A i, j \in 1..Len(b) : b[i] = b[j] => i = j}

IOErrors == {"RCONSendError", "RCONReceiveError", "RCONClosed"}

\* the record of a call, as the caller has it when the call ends;
\* connected_from is the id_seq before the connect call that returned just
\* before this call, and -1 when the call before this one was not a connect
\* call that returned; raised_on is the socket of the Ready client on which
\* the call before this one, a send_packet or receive_packet call of the
\* user, raised, and None when the call before was not such a call
Call(op, before, cmds, script, out) ==
    [op |-> op, before |-> before, cmds |-> cmds, script |-> script,
     exc |-> out.exc, msg |-> out.msg, results |-> out.results,
     sent |-> out.sent, nread |-> out.nread,
     lockout |-> lockout, after_close |-> just_closed,
     connected_from |-> call.connected_from, raised_on |-> call.raised_on]

Idle ==
    [op |-> "idle", before |-> ClientState(None, FALSE, 0, {}, 0), cmds |-> <<>>,
     script |-> NoScript, exc |-> "none", msg |-> "", results |-> <<>>,
     sent |-> <<>>, nread |-> 0, lockout |-> FALSE, after_close |-> FALSE,
     connected_from |-> -1, raised_on |-> None]

SetState(st) ==
    /\ rcon_socket' = st.rcon_socket
    /\ rcon_failure' = st.rcon_failure
    /\ id_seq' = st.id_seq
    /\ open_socks' = st.open_socks
    /\ sock_count' = st.sock_count

\* the record of the last operation: build_message and parse_message on a
\* message; or a call of connect or send_commands on the client of class
\* variant, its outcome out, and the outcome other that the client of the
\* other class has from the same state on the same bytes
Frame(variant, op, message, packet, parsed, before, cmds, stream, out, other) ==
    [variant |-> variant, op |-> op, message |-> message, packet |-> packet,
     parsed |-> parsed, before |-> before, cmds |-> cmds, stream |-> stream,
     out |-> out, other |-> other]

NoOutcome == Outcome(ClientState(None, FALSE, 0, {}, 0), "none", "", <<>>, <<>>, 0)

FrameIdle(variant) ==
    Frame(variant, "idle", RCONMessage(0, 0, NoneStr), <<>>,
          [exc |-> "none", msg |-> "", pkt |-> <<>>],
          ClientState(None, FALSE, 0, {}, 0), <<>>, Stream(<<>>, "closed"),
          NoOutcome, NoOutcome)

---------------------------------------------------------------------------
(* Specification Spec: one caller of the blocking client *)

InitClient ==
    /\ rcon_socket = None
    /\ rcon_failure = FALSE
    /\ id_seq = 0
    /\ socket_locked = FALSE
    /\ open_socks = {}
    /\ sock_count = 0

Init ==
    /\ InitClient
    /\ call = Idle
    /\ lockout = FALSE
    /\ just_closed = FALSE
    /\ tasks = <<>>
    /\ frame = FrameIdle("RCONClient")

Connect ==
    /\ call.op = "idle"
    /\ sock_count < MaxConnects
    /\ \E cs \in ConnectScripts :
          LET out == connect(St, cs)
          IN  /\ SetState(out.st)
              /\ call' = Call("connect", St, <<>>, cs, out)
    /\ lockout' = FALSE
    /\ just_closed' = FALSE
    /\ UNCHANGED <<socket_locked, tasks, frame>>

Close ==
    /\ call.op = "idle"
    /\ SetState(close(St))
    /\ call' = Call("close", St, <<>>, NoScript,
                    Outcome(close(St), "none", "", <<>>, <<>>, 0))
    /\ just_closed' = TRUE
    /\ UNCHANGED <<lockout, socket_locked, tasks, frame>>

SendCommands ==
    /\ call.op = "idle"
    /\ \E cmds \in DistinctBatches :
          /\ Ready(St) => id_seq + Len(cmds) <= MaxSeq
          /\ \E sc \in SendScripts(St, Len(cmds)) :
                LET out == send_commands(St, cmds, sc)
                IN  /\ SetState(out.st)
                    /\ call' = Call("send_commands", St, cmds, sc, out)
                    /\ lockout' = (lockout \/ (Ready(St) /\ out.exc \in IOErrors))
    /\ just_closed' = FALSE
    /\ UNCHANGED <<socket_locked, tasks, frame>>

SendCommand ==
    /\ call.op = "idle"
    /\ Ready(St) => id_seq + 1 <= MaxSeq
    /\ \E sc \in SendScripts(St, 1) :
          LET out == send_command(St, sc)
          IN  /\ SetState(out.st)
              /\ call' = Call("send_command", St, <<1>>, sc, out)
              /\ lockout' = (lockout \/ (Ready(St) /\ out.exc \in IOErrors))
    /\ just_closed' = FALSE
    /\ UNCHANGED <<socket_locked, tasks, frame>>

Enter ==
    /\ call.op = "idle"
    /\ ~Ready(St) => sock_count < MaxConnects
    /\ \E cs \in IF Ready(St) THEN {NoScript} ELSE ConnectScripts :
          LET out == enter(St, cs)
          IN  /\ SetState(out.st)
              /\ call' = Call("enter", St, <<>>, cs, out)
    /\ lockout' = (lockout /\ Ready(St))
    /\ just_closed' = FALSE
    /\ UNCHANGED <<socket_locked, tasks, frame>>

Exit ==
    /\ call.op = "idle"
    /\ SetState(exit(St))
    /\ call' = Call("exit", St, <<>>, NoScript,
                    Outcome(exit(St), "none", "", <<>>, <<>>, 0))
    /\ just_closed' = FALSE
    /\ UNCHANGED <<lockout, socket_locked, tasks, frame>>

\* the user calls send_packet with an id and a type of their choice
SendPacket ==
    /\ call.op = "idle"
    /\ \E message \in {RCONMessage(i, EXECCOMMAND, Some(CmdText(1))) : i \in {0, 1}} :
       \E sendall \in {"returns", "OSError", "TimeoutError"} :
          LET sc == [Script(TRUE, sendall = "returns", ErrorEvent("closed"), 0, <<>>)
                        EXCEPT !.send_error = sendall]
              out == send_packet(St, message, sendall)
          IN  /\ SetState(out.st)
              /\ call' = Call("send_packet", St, <<>>, sc, out)
    /\ UNCHANGED <<lockout, just_closed, socket_locked, tasks, frame>>

\* the user calls receive_packet
ReceivePacket ==
    /\ call.op = "idle"
    /\ \E ev \in ErrorEvents \cup ResponsePackets({id_seq}) :
          LET sc == Script(TRUE, TRUE, ErrorEvent("closed"), 0, <<ev>>)
              out == receive_packet_call(St, ev)
          IN  /\ SetState(out.st)
              /\ call' = Call("receive_packet", St, <<>>, sc, out)
    /\ UNCHANGED <<lockout, just_closed, socket_locked, tasks, frame>>

\* the caller has taken the result or the exception of its call
Return ==
    /\ call.op # "idle"
    /\ call' = [Idle EXCEPT
                    !.connected_from =
                        IF call.op = "connect" /\ call.exc = "none"
                        THEN call.before.id_seq ELSE -1,
                    !.raised_on =
                        IF /\ call.op \in {"send_packet", "receive_packet"}
                           /\ Ready(call.before)
                           /\ call.exc # "none"
                        THEN call.before.rcon_socket ELSE None]
    /\ UNCHANGED <<rcon_socket, rcon_failure, id_seq, socket_locked, open_socks,
                   sock_count, lockout, just_closed, tasks, frame>>

Next ==
    \/ Connect
    \/ Close
    \/ SendCommands
    \/ SendCommand
    \/ SendPacket
    \/ ReceivePacket
    \/ Enter
    \/ Exit
    \/ Return

Spec == Init /\ [][Next]_vars

---------------------------------------------------------------------------
(* SpecIds: the blocking client when id_seq comes to 2**31 - 1 *)

\* the values of id_seq that SpecIds visits: the last ones before
\* 2**31 - 1 and the first ones after the counter is back at 0
NearWrap(seq) == seq < MaxSeq \/ seq >= INT32_MAX - MaxSeq

\* a connected client that has minted ids for a long time
InitIds ==
    /\ rcon_socket = 1
    /\ rcon_failure = FALSE
    /\ id_seq \in {0} \cup {INT32_MAX - k : k \in 0..MaxSeq}
    /\ socket_locked = FALSE
    /\ open_socks = {1}
    /\ sock_count = 1
    /\ call = Idle
    /\ lockout = FALSE
    /\ just_closed = FALSE
    /\ tasks = <<>>
    /\ frame = FrameIdle("RCONClient")

\* one call of get_id
GetId ==
    /\ call.op = "idle"
    /\ NearWrap(id_seq)
    /\ id_seq' = get_id(id_seq)
    /\ call' = Call("get_id", St, <<>>, NoScript,
                    Outcome([St EXCEPT !.id_seq = get_id(id_seq)],
                            "none", "", get_id(id_seq), <<>>, 0))
    /\ UNCHANGED <<rcon_socket, rcon_failure, socket_locked, open_socks,
                   sock_count, lockout, just_closed, tasks, frame>>

\* send_commands on a Ready client
SendCommandsNearWrap ==
    /\ call.op = "idle"
    /\ Ready(St)
    /\ NearWrap(id_seq)
    /\ \E cmds \in DistinctBatches :
       \E sc \in SendScripts(St, Len(cmds)) :
          LET out == send_commands(St, cmds, sc)
          IN  /\ SetState(out.st)
              /\ call' = Call("send_commands", St, cmds, sc, out)
    /\ UNCHANGED <<socket_locked, lockout, just_closed, tasks, frame>>

NextIds == GetId \/ SendCommandsNearWrap \/ Return

SpecIds == InitIds /\ [][NextIds]_vars

---------------------------------------------------------------------------
(* AsyncRCONClient with the busy flag, factorio_rcon/factorio_rcon.py.     *)
(* Each task runs the code between two awaits as one step; an await on a   *)
(* socket operation ends when the environment completes the operation,     *)
(* with success or with an error.  An operation on a closed socket can    *)
(* only fail.  A socket operation is made on what rcon_socket holds when   *)
(* the operation is called: when that is None the call raises at once, in  *)
(* the step that makes it.                                                 *)

Tasks == 1..NumTasks

\* a task: its place in the code (pc), the call it is in (op), and the
\* locals of that call: the number n of commands (with keys 1..n), the ids
\* minted, the number of packets written, the socket of the operation
\* awaited, received and results of send_commands, the exception being
\* handled or raised by the last call, and whether the call was made on a
\* connected, non-failed client while a send_commands call of another task
\* had not completed
Task(pc, op, n, ids, nsent, sock, received, results, exc, overlap) ==
    [pc |-> pc, op |-> op, n |-> n, ids |-> ids, nsent |-> nsent,
     sock |-> sock, received |-> received, results |-> results,
     exc |-> exc, overlap |-> overlap]

TaskIdle == Task("idle", "none", 0, <<>>, 0, None, 0, <<>>, "none", FALSE)

\* the call of a task ended, returning (exc = "none") or raising exc; what
\* is left of it is its outcome
Ended(me, exc) ==
    [me EXCEPT !.pc = "idle", !.exc = exc, !.sock = None, !.ids = <<>>,
               !.received = 0]

\* another task is inside a send_commands call
OtherSending(t) ==
    \E u \in Tasks \ {t} : tasks[u].op = "send_commands" /\ tasks[u].pc # "idle"

\* the socket operation awaited by task t can succeed
SocketUsable(t) == tasks[t].sock # None /\ tasks[t].sock \in open_socks

\* async_handle_socket_errors: except BaseException and finally, up to the
\* await in close(): the failure is marked; with a socket, its close() is
\* awaited; without one, the lock is released and exc is raised; id_seq is
\* left to the step that raises
Handle(t, me, exc) ==
    /\ rcon_failure' = TRUE
    /\ IF rcon_socket # None
       THEN /\ open_socks' = open_socks \ {rcon_socket}
            /\ tasks' = [tasks EXCEPT ![t] =
                   [me EXCEPT !.pc = "ex_close", !.exc = exc, !.sock = rcon_socket]]
            /\ UNCHANGED socket_locked
       ELSE /\ tasks' = [tasks EXCEPT ![t] =
                   Ended(me, exc)]
            /\ socket_locked' = FALSE
            /\ UNCHANGED open_socks
    /\ UNCHANGED <<rcon_socket, sock_count>>

\* async_handle_socket_errors, close(): after the await in the except
\* clause: rcon_socket = None, raise, finally socket_locked = False
ExClosed(t) ==
    /\ tasks[t].pc = "ex_close"
    /\ rcon_socket' = None
    /\ socket_locked' = FALSE
    /\ tasks' = [tasks EXCEPT ![t] = Ended(tasks[t], tasks[t].exc)]
    /\ UNCHANGED <<rcon_failure, id_seq, open_socks, sock_count>>

\* (mutant) the busy check made inside the try statement, so that the
\* finally clause runs when the call is rejected
InvokeSendCommands_busy_check_in_try(t) ==
    /\ tasks[t].pc = "idle"
    /\ \E n \in 0..MaxBatch :
          LET overlap == rcon_socket # None /\ ~rcon_failure /\ OtherSending(t)
              me == Task("idle", "send_commands", n, <<>>, 0, None, 0, <<>>,
                         "none", overlap)
          IN  IF rcon_socket = None \/ rcon_failure
              THEN /\ tasks' = [tasks EXCEPT ![t] = [me EXCEPT !.exc = "RCONNotConnected"]]
                   /\ UNCHANGED <<socket_locked, id_seq>>
              ELSE IF socket_locked
              THEN /\ tasks' = [tasks EXCEPT ![t] = [me EXCEPT !.exc = "ClientBusy"]]
                   /\ socket_locked' = FALSE
                   /\ UNCHANGED id_seq
              ELSE IF n = 0
              THEN /\ tasks' = [tasks EXCEPT ![t] = me]
                   /\ socket_locked' = FALSE
                   /\ UNCHANGED id_seq
              ELSE /\ id_seq + n <= MaxSeq
                   /\ id_seq' = get_id(id_seq)
                   /\ socket_locked' = TRUE
                   /\ tasks' = [tasks EXCEPT ![t] =
                          [me EXCEPT !.pc = "sc_send", !.ids = <<get_id(id_seq)>>,
                                     !.sock = rcon_socket]]
    /\ UNCHANGED <<rcon_socket, rcon_failure, open_socks, sock_count>>

\* send_commands is called with n commands: the checks of the decorator,
\* then the function up to its first await
InvokeSendCommands(t) ==
    /\ tasks[t].pc = "idle"
    /\ \E n \in 0..MaxBatch :
          LET overlap == rcon_socket # None /\ ~rcon_failure /\ OtherSending(t)
              me == Task("idle", "send_commands", n, <<>>, 0, None, 0, <<>>,
                         "none", overlap)
          IN  IF rcon_socket = None \/ rcon_failure
              THEN /\ tasks' = [tasks EXCEPT ![t] = [me EXCEPT !.exc = "RCONNotConnected"]]
                   /\ UNCHANGED <<socket_locked, id_seq>>
              ELSE IF socket_locked
              THEN /\ tasks' = [tasks EXCEPT ![t] = [me EXCEPT !.exc = "ClientBusy"]]
                   /\ UNCHANGED <<socket_locked, id_seq>>
              ELSE IF n = 0
              THEN /\ tasks' = [tasks EXCEPT ![t] = me]
                   /\ socket_locked' = FALSE
                   /\ UNCHANGED id_seq
              ELSE /\ id_seq + n <= MaxSeq
                   /\ id_seq' = get_id(id_seq)
                   /\ socket_locked' = TRUE
                   /\ tasks' = [tasks EXCEPT ![t] =
                          [me EXCEPT !.pc = "sc_send", !.ids = <<get_id(id_seq)>>,
                                     !.sock = rcon_socket]]
    /\ UNCHANGED <<rcon_socket, rcon_failure, open_socks, sock_count>>

\* send_commands: the awaited send_packet wrote its packet; the next id is
\* minted and the next command sent, or receive_packets is called; with
\* rcon_socket None by then, send_packet raises RCONSendError and
\* receive_packets RCONReceiveError
SendDone(t) ==
    /\ tasks[t].pc = "sc_send"
    /\ SocketUsable(t)
    /\ LET me == [tasks[t] EXCEPT !.nsent = @ + 1]
       IN  IF me.nsent < me.n
           THEN /\ id_seq' = get_id(id_seq)
                /\ IF rcon_socket = None
                   THEN Handle(t, me, "RCONSendError")
                   ELSE /\ tasks' = [tasks EXCEPT ![t] =
                               [me EXCEPT !.ids = Append(@, get_id(id_seq)),
                                          !.sock = rcon_socket]]
                        /\ UNCHANGED <<rcon_socket, rcon_failure, socket_locked,
                                       open_socks, sock_count>>
           ELSE /\ UNCHANGED id_seq
                /\ IF rcon_socket = None
                   THEN Handle(t, me, "RCONReceiveError")
                   ELSE /\ tasks' = [tasks EXCEPT ![t] =
                               [me EXCEPT !.pc = "sc_recv", !.sock = rcon_socket]]
                        /\ UNCHANGED <<rcon_socket, rcon_failure, socket_locked,
                                       open_socks, sock_count>>

\* send_commands: the awaited send_packet raised RCONSendError
SendFailed(t) ==
    /\ tasks[t].pc = "sc_send"
    /\ Handle(t, tasks[t], "RCONSendError")
    /\ UNCHANGED id_seq

\* the packets receive_packets may return to a send_commands call: one or
\* two responses to ids that were minted or to the id last used before
ResponseLists ==
    LET packets == {RCONMessage(i, RESPONSE_VALUE, b) :
                       i \in 0..id_seq, b \in {<<>>, <<"x", "\n">>}}
    IN  {<<p>> : p \in packets} \cup
        {<<p, q>> : p \in packets, q \in {r \in packets : r.body # <<>>}}

\* send_commands: the loop over the responses of one receive_packets call
RECURSIVE take_responses(_, _, _, _)
take_responses(responses, id_map, me, i) ==
    IF i > Len(responses) THEN [me EXCEPT !.exc = "none"]
    ELSE LET response == responses[i]
             counted == [me EXCEPT !.received = @ + 1]
         IN  IF response.id \notin DOMAIN id_map
             THEN [counted EXCEPT !.exc = "InvalidResponse"]
             ELSE take_responses(responses, id_map,
                      [counted EXCEPT !.results =
                          dict_set(@, id_map[response.id],
                                   IF response.body = <<>> THEN NoneStr
                                   ELSE Some(rstrip(response.body)))],
                      i + 1)

\* send_commands: the awaited receive_some returned the bytes that end
\* the data of receive_packets, which returns responses; they are handled
\* (of two commands sent with the same id, id_map keeps the key of the
\* last), and the call returns, raises or calls receive_packets again,
\* which raises RCONReceiveError when rcon_socket is None by then
RecvDone(t) ==
    /\ tasks[t].pc = "sc_recv"
    /\ SocketUsable(t)
    /\ UNCHANGED id_seq
    /\ \E responses \in ResponseLists :
          LET id_map == id_map_of(tasks[t].ids, [j \in 1..tasks[t].n |-> j])
              me == take_responses(responses, id_map, tasks[t], 1)
          IN  IF me.exc # "none"
              THEN Handle(t, me, me.exc)
              ELSE IF me.received < me.n
              THEN IF rcon_socket = None
                   THEN Handle(t, me, "RCONReceiveError")
                   ELSE /\ tasks' = [tasks EXCEPT ![t] =
                               [me EXCEPT !.sock = rcon_socket]]
                        /\ UNCHANGED <<rcon_socket, rcon_failure, socket_locked,
                                       open_socks, sock_count>>
              ELSE /\ tasks' = [tasks EXCEPT ![t] =
                          Ended(me, "none")]
                   /\ socket_locked' = FALSE
                   /\ UNCHANGED <<rcon_socket, rcon_failure, open_socks,
                                  sock_count>>

\* send_commands, the loop of receive_packets: the awaited receive_some
\* returned bytes that do not end the data; receive_some is called again,
\* on what rcon_socket holds by then
RecvPart(t) ==
    /\ tasks[t].pc = "sc_recv"
    /\ SocketUsable(t)
    /\ UNCHANGED id_seq
    /\ IF rcon_socket = None
       THEN Handle(t, tasks[t], "RCONReceiveError")
       ELSE /\ tasks' = [tasks EXCEPT ![t].sock = rcon_socket]
            /\ UNCHANGED <<rcon_socket, rcon_failure, socket_locked, open_socks,
                           sock_count>>

\* send_commands: the awaited receive_packets raised
RecvFailed(t) ==
    /\ tasks[t].pc = "sc_recv"
    /\ UNCHANGED id_seq
    /\ \E exc \in {"RCONClosed", "RCONReceiveError", "InvalidResponse"} :
          Handle(t, tasks[t], exc)

\* connect is called: up to the await of the old socket's close() or of
\* connect_tcp
InvokeConnect(t) ==
    /\ tasks[t].pc = "idle"
    /\ sock_count < MaxConnects
    /\ LET me == Task("co_tcp", "connect", 0, <<>>, 0, None, 0, <<>>, "none", FALSE)
       IN  IF rcon_socket # None
           THEN /\ open_socks' = open_socks \ {rcon_socket}
                /\ tasks' = [tasks EXCEPT ![t] = [me EXCEPT !.pc = "co_close"]]
                /\ UNCHANGED rcon_failure
           ELSE /\ rcon_failure' = FALSE
                /\ tasks' = [tasks EXCEPT ![t] = me]
                /\ UNCHANGED open_socks
    /\ UNCHANGED <<rcon_socket, id_seq, socket_locked, sock_count>>

\* connect: the old socket's close() returned
ConnectClosedOld(t) ==
    /\ tasks[t].pc = "co_close"
    /\ rcon_failure' = FALSE
    /\ tasks' = [tasks EXCEPT ![t].pc = "co_tcp"]
    /\ UNCHANGED <<rcon_socket, id_seq, socket_locked, open_socks, sock_count>>

\* connect: connect_tcp returned a socket; the AUTH packet is sent
ConnectTcpDone(t) ==
    /\ tasks[t].pc = "co_tcp"
    /\ sock_count < MaxConnects
    /\ rcon_socket' = sock_count + 1
    /\ sock_count' = sock_count + 1
    /\ open_socks' = open_socks \cup {sock_count + 1}
    /\ id_seq' = 0
    /\ tasks' = [tasks EXCEPT ![t].pc = "co_send", ![t].sock = sock_count + 1]
    /\ UNCHANGED <<rcon_failure, socket_locked>>

\* connect: connect_tcp raised
ConnectTcpFailed(t) ==
    /\ tasks[t].pc = "co_tcp"
    /\ Handle(t, tasks[t], "RCONConnectError")
    /\ UNCHANGED id_seq

\* connect: the AUTH packet was written; receive_packets is called, which
\* raises when rcon_socket is None by then (RCONConnectError)
ConnectSendDone(t) ==
    /\ tasks[t].pc = "co_send"
    /\ SocketUsable(t)
    /\ UNCHANGED id_seq
    /\ IF rcon_socket = None
       THEN Handle(t, tasks[t], "RCONConnectError")
       ELSE /\ tasks' = [tasks EXCEPT ![t].pc = "co_recv", ![t].sock = rcon_socket]
            /\ UNCHANGED <<rcon_socket, rcon_failure, socket_locked, open_socks,
                           sock_count>>

\* connect: send_packet raised
ConnectSendFailed(t) ==
    /\ tasks[t].pc = "co_send"
    /\ Handle(t, tasks[t], "RCONConnectError")
    /\ UNCHANGED id_seq

\* connect: the loop over the responses to the AUTH packet
RECURSIVE auth_verdict_busy(_, _)
auth_verdict_busy(responses, i) ==
    IF i > Len(responses) THEN "InvalidResponse"
    ELSE IF responses[i].type = AUTH_RESPONSE
    THEN IF responses[i].id = -1 THEN "InvalidPassword" ELSE "none"
    ELSE auth_verdict_busy(responses, i + 1)

\* connect: the awaited receive_some returned the bytes that end the data
\* of receive_packets, which returns the reply to the AUTH packet
ConnectRecvDone(t) ==
    /\ tasks[t].pc = "co_recv"
    /\ SocketUsable(t)
    /\ UNCHANGED id_seq
    /\ \E i \in {-1, 0}, type \in {RESPONSE_VALUE, AUTH_RESPONSE} :
          LET exc == auth_verdict_busy(<<RCONMessage(i, type, <<>>)>>, 1)
          IN  IF exc # "none" THEN Handle(t, tasks[t], exc)
              ELSE /\ tasks' = [tasks EXCEPT ![t] = Ended(tasks[t], "none")]
                   /\ socket_locked' = FALSE
                   /\ UNCHANGED <<rcon_socket, rcon_failure, open_socks,
                                  sock_count>>

\* connect, the loop of receive_packets: the awaited receive_some returned
\* bytes that do not end the data; receive_some is called again, on what
\* rcon_socket holds by then
ConnectRecvPart(t) ==
    /\ tasks[t].pc = "co_recv"
    /\ SocketUsable(t)
    /\ UNCHANGED id_seq
    /\ IF rcon_socket = None
       THEN Handle(t, tasks[t], "RCONConnectError")
       ELSE /\ tasks' = [tasks EXCEPT ![t].sock = rcon_socket]
            /\ UNCHANGED <<rcon_socket, rcon_failure, socket_locked, open_socks,
                           sock_count>>

\* connect: receive_packets raised
ConnectRecvFailed(t) ==
    /\ tasks[t].pc = "co_recv"
    /\ Handle(t, tasks[t], "RCONConnectError")
    /\ UNCHANGED id_seq

\* close() is called: up to the await of the socket's close()
InvokeClose(t) ==
    /\ tasks[t].pc = "idle"
    /\ LET me == Task("idle", "close", 0, <<>>, 0, None, 0, <<>>, "none", FALSE)
       IN  IF rcon_socket # None
           THEN /\ open_socks' = open_socks \ {rcon_socket}
                /\ tasks' = [tasks EXCEPT ![t] =
                       [me EXCEPT !.pc = "cl_close", !.sock = rcon_socket]]
           ELSE /\ tasks' = [tasks EXCEPT ![t] = me]
                /\ UNCHANGED open_socks
    /\ UNCHANGED <<rcon_socket, rcon_failure, id_seq, socket_locked, sock_count>>

\* close(): the socket's close() returned; rcon_socket = None
CloseDone(t) ==
    /\ tasks[t].pc = "cl_close"
    /\ rcon_socket' = None
    /\ tasks' = [tasks EXCEPT ![t] = Ended(tasks[t], "none")]
    /\ UNCHANGED <<rcon_failure, id_seq, socket_locked, open_socks, sock_count>>

InitBusy ==
    /\ InitClient
    /\ call = Idle
    /\ lockout = FALSE
    /\ just_closed = FALSE
    /\ tasks = [t \in Tasks |-> TaskIdle]
    /\ frame = FrameIdle("AsyncRCONClient")

\* the variables of the other specifications, unused by the tasks
blocking_vars == <<call, lockout, just_closed, frame>>

NextBusy ==
    \/ \E t \in Tasks : InvokeSendCommands(t) /\ UNCHANGED blocking_vars
    \/ \E t \in Tasks : SendDone(t) /\ UNCHANGED blocking_vars
    \/ \E t \in Tasks : SendFailed(t) /\ UNCHANGED blocking_vars
    \/ \E t \in Tasks : RecvDone(t) /\ UNCHANGED blocking_vars
    \/ \E t \in Tasks : RecvPart(t) /\ UNCHANGED blocking_vars
    \/ \E t \in Tasks : RecvFailed(t) /\ UNCHANGED blocking_vars
    \/ \E t \in Tasks : ExClosed(t) /\ UNCHANGED blocking_vars
    \/ \E t \in Tasks : InvokeConnect(t) /\ UNCHANGED blocking_vars
    \/ \E t \in Tasks : ConnectClosedOld(t) /\ UNCHANGED blocking_vars
    \/ \E t \in Tasks : ConnectTcpDone(t) /\ UNCHANGED blocking_vars
    \/ \E t \in Tasks : ConnectTcpFailed(t) /\ UNCHANGED blocking_vars
    \/ \E t \in Tasks : ConnectSendDone(t) /\ UNCHANGED blocking_vars
    \/ \E t \in Tasks : ConnectSendFailed(t) /\ UNCHANGED blocking_vars
    \/ \E t \in Tasks : ConnectRecvDone(t) /\ UNCHANGED blocking_vars
    \/ \E t \in Tasks : ConnectRecvPart(t) /\ UNCHANGED blocking_vars
    \/ \E t \in Tasks : ConnectRecvFailed(t) /\ UNCHANGED blocking_vars
    \/ \E t \in Tasks : InvokeClose(t) /\ UNCHANGED blocking_vars
    \/ \E t \in Tasks : CloseDone(t) /\ UNCHANGED blocking_vars

SpecBusy == InitBusy /\ [][NextBusy]_vars

---------------------------------------------------------------------------
(* AsyncRCONClient of factorio_rcon/_factorio_rcon.py, which has no busy   *)
(* flag, with several tasks interleaved at the await points of the code.   *)
(* Each task runs the code between two awaits as one step; every read of   *)
(* receive_exactly is an await, made on what rcon_socket holds by then.    *)

\* a coroutine of a task: its place in the code (pc), the call it is in
\* (op), the number n of commands, the packets written and read so far,
\* whether a response read does not pass the checks, the socket of the
\* operation awaited, the exception raised by the call, and the rank of the
\* call among the calls made on the client (0: no call yet)
Coroutine(pc, op, n, nsent, nrecv, invalid, sock, exc, began) ==
    [pc |-> pc, op |-> op, n |-> n, nsent |-> nsent, nrecv |-> nrecv,
     invalid |-> invalid, sock |-> sock, exc |-> exc, began |-> began]

CoroutineIdle == Coroutine("idle", "none", 0, 0, 0, FALSE, None, "none", 0)

\* the number of calls made on the client so far
Calls ==
    LET ranks == {tasks[t].began : t \in Tasks}
    IN  CHOOSE r \in ranks : \A q \in ranks : q <= r

\* a task that is not inside a call makes the next call of the client
Begin(t, op, n) ==
    [CoroutineIdle EXCEPT !.op = op, !.n = n, !.began = Calls + 1]

\* the call of a task ended, returning (exc = "none") or raising exc
Finished(me, exc) ==
    [me EXCEPT !.pc = "idle", !.exc = exc, !.sock = None]

\* the socket operation awaited by task t can succeed
Usable(t) == tasks[t].sock # None /\ tasks[t].sock \in open_socks

\* async_handle_socket_errors, except BaseException: the failure is marked
\* and close() is awaited, which closes whatever rcon_socket holds at that
\* time; after the await, rcon_socket = None and exc is raised (Excepted);
\* id_seq is left to the step that raises
Except(t, me, exc) ==
    /\ rcon_failure' = TRUE
    /\ IF rcon_socket # None
       THEN /\ open_socks' = open_socks \ {rcon_socket}
            /\ tasks' = [tasks EXCEPT ![t] =
                   [me EXCEPT !.pc = "except", !.exc = exc, !.sock = rcon_socket]]
       ELSE /\ tasks' = [tasks EXCEPT ![t] = Finished(me, exc)]
            /\ UNCHANGED open_socks
    /\ UNCHANGED <<rcon_socket, sock_count, socket_locked>>

\* (in __aenter__ the exception leaves the decorator of connect and meets
\* the decorator of __aenter__, which marks the failure again and finds no
\* socket to close)
Excepted(t) ==
    /\ tasks[t].pc = "except"
    /\ rcon_socket' = None
    /\ rcon_failure' = (rcon_failure \/ tasks[t].op = "aenter")
    /\ tasks' = [tasks EXCEPT ![t] = Finished(tasks[t], tasks[t].exc)]
    /\ UNCHANGED <<id_seq, open_socks, sock_count, socket_locked>>

\* send_commands is called with n commands: the checks of the decorator,
\* then the function up to its first await, the send of the first packet
AsyncSendCommands(t) ==
    /\ tasks[t].pc = "idle"
    /\ Calls < MaxCalls
    /\ \E n \in 0..MaxBatch :
          LET me == Begin(t, "send_commands", n)
          IN  IF rcon_socket = None \/ rcon_failure
              THEN /\ tasks' = [tasks EXCEPT ![t] = Finished(me, "RCONNotConnected")]
                   /\ UNCHANGED id_seq
              ELSE IF n = 0
              THEN /\ tasks' = [tasks EXCEPT ![t] = Finished(me, "none")]
                   /\ UNCHANGED id_seq
              ELSE /\ tasks' = [tasks EXCEPT ![t] =
                          [me EXCEPT !.pc = "send", !.sock = rcon_socket]]
                   /\ id_seq' = get_id(id_seq)
    /\ UNCHANGED <<rcon_socket, rcon_failure, open_socks, sock_count, socket_locked>>

\* the send of a packet of send_commands completed: the next packet is
\* sent, or the first receive_packet call is made; send_packet and
\* receive_packet raise RCONNotConnected when rcon_socket is None by then
AsyncSendDone(t) ==
    /\ tasks[t].pc = "send"
    /\ Usable(t)
    /\ LET me == [tasks[t] EXCEPT !.nsent = @ + 1]
       IN  IF me.nsent < me.n
           THEN /\ id_seq' = get_id(id_seq)
                /\ IF rcon_socket = None
                   THEN Except(t, me, "RCONNotConnected")
                   ELSE /\ tasks' = [tasks EXCEPT ![t] =
                               [me EXCEPT !.sock = rcon_socket]]
                        /\ UNCHANGED <<rcon_socket, rcon_failure, open_socks,
                                       sock_count, socket_locked>>
           ELSE /\ UNCHANGED id_seq
                /\ IF rcon_socket = None
                   THEN Except(t, me, "RCONNotConnected")
                   ELSE /\ tasks' = [tasks EXCEPT ![t] =
                               [me EXCEPT !.pc = "recv", !.sock = rcon_socket]]
                        /\ UNCHANGED <<rcon_socket, rcon_failure, open_socks,
                                       sock_count, socket_locked>>

\* the send failed: RCONSendError
AsyncSendFailed(t) ==
    /\ tasks[t].pc = "send"
    /\ Except(t, tasks[t], "RCONSendError")
    /\ UNCHANGED id_seq

\* a receive_packet call of send_commands returned a packet, which will
\* pass the checks of send_commands (ok) or not: the next receive_packet
\* call is made, or, after the n-th packet, the responses are checked
AsyncRecvDone(t) ==
    /\ tasks[t].pc = "recv"
    /\ Usable(t)
    /\ UNCHANGED id_seq
    /\ \E ok \in BOOLEAN :
          LET me == [tasks[t] EXCEPT !.nrecv = @ + 1,
                                     !.invalid = @ \/ ~ok]
          IN  IF me.nrecv < me.n
              THEN IF rcon_socket = None
                   THEN Except(t, me, "RCONNotConnected")
                   ELSE /\ tasks' = [tasks EXCEPT ![t] =
                               [me EXCEPT !.sock = rcon_socket]]
                        /\ UNCHANGED <<rcon_socket, rcon_failure,
                                       open_socks, sock_count, socket_locked>>
              ELSE IF me.invalid
              THEN Except(t, me, "InvalidResponse")
              ELSE /\ tasks' = [tasks EXCEPT ![t] = Finished(me, "none")]
                   /\ UNCHANGED <<rcon_socket, rcon_failure, open_socks,
                                  sock_count, socket_locked>>

\* a read of receive_exactly in send_commands returned bytes that do not
\* end the packet: the next read is made on what rcon_socket holds by
\* then, and fails at once (RCONReceiveError) when that is None
AsyncRecvPart(t) ==
    /\ tasks[t].pc = "recv"
    /\ Usable(t)
    /\ UNCHANGED id_seq
    /\ IF rcon_socket = None
       THEN Except(t, tasks[t], "RCONReceiveError")
       ELSE /\ tasks' = [tasks EXCEPT ![t].sock = rcon_socket]
            /\ UNCHANGED <<rcon_socket, rcon_failure, open_socks, sock_count,
                           socket_locked>>

\* a receive_packet call of send_commands raised: the peer closed, the
\* bytes read do not parse (InvalidResponse), or the read failed (as it
\* does on a socket that was closed)
AsyncRecvFailed(t) ==
    /\ tasks[t].pc = "recv"
    /\ \E exc \in {"RCONClosed", "InvalidResponse", "RCONReceiveError"} :
          /\ exc \in {"RCONClosed", "InvalidResponse"} => Usable(t)
          /\ Except(t, tasks[t], exc)
    /\ UNCHANGED id_seq

\* connect is called: close() up to its await when there is a socket,
\* else rcon_failure = False and the await of connect_tcp
AsyncConnect(t) ==
    /\ tasks[t].pc = "idle"
    /\ Calls < MaxCalls
    /\ LET me == Begin(t, "connect", 0)
       IN  IF rcon_socket # None
           THEN /\ open_socks' = open_socks \ {rcon_socket}
                /\ tasks' = [tasks EXCEPT ![t] =
                       [me EXCEPT !.pc = "connect_close", !.sock = rcon_socket]]
                /\ UNCHANGED rcon_failure
           ELSE /\ rcon_failure' = FALSE
                /\ tasks' = [tasks EXCEPT ![t] = [me EXCEPT !.pc = "connect_tcp"]]
                /\ UNCHANGED open_socks
    /\ UNCHANGED <<rcon_socket, id_seq, sock_count, socket_locked>>

\* connect, after the await in close(): rcon_socket = None,
\* rcon_failure = False, and the await of connect_tcp
AsyncConnectClosed(t) ==
    /\ tasks[t].pc = "connect_close"
    /\ rcon_socket' = None
    /\ rcon_failure' = FALSE
    /\ tasks' = [tasks EXCEPT ![t] = [@ EXCEPT !.pc = "connect_tcp", !.sock = None]]
    /\ UNCHANGED <<id_seq, open_socks, sock_count, socket_locked>>

\* connect_tcp returned a stream: it is stored, id_seq = 0, and the AUTH
\* packet is sent
AsyncConnectTcpDone(t) ==
    /\ tasks[t].pc = "connect_tcp"
    /\ sock_count < MaxConnects
    /\ rcon_socket' = sock_count + 1
    /\ sock_count' = sock_count + 1
    /\ open_socks' = open_socks \cup {sock_count + 1}
    /\ id_seq' = 0
    /\ tasks' = [tasks EXCEPT ![t] =
           [@ EXCEPT !.pc = "connect_send", !.sock = sock_count + 1]]
    /\ UNCHANGED <<rcon_failure, socket_locked>>

\* connect_tcp raised: RCONConnectError
AsyncConnectTcpFailed(t) ==
    /\ tasks[t].pc = "connect_tcp"
    /\ Except(t, tasks[t], "RCONConnectError")
    /\ UNCHANGED id_seq

\* the AUTH packet was sent: receive_packet is called, which raises
\* RCONNotConnected, turned into RCONConnectError, when rcon_socket is None
AsyncConnectSendDone(t) ==
    /\ tasks[t].pc = "connect_send"
    /\ Usable(t)
    /\ LET me == [tasks[t] EXCEPT !.nsent = 1]
       IN  IF rcon_socket = None
           THEN Except(t, me, "RCONConnectError")
           ELSE /\ tasks' = [tasks EXCEPT ![t] =
                       [me EXCEPT !.pc = "connect_recv", !.sock = rcon_socket]]
                /\ UNCHANGED <<rcon_socket, rcon_failure, open_socks,
                               sock_count, socket_locked>>
    /\ UNCHANGED id_seq

\* the send of the AUTH packet failed: RCONConnectError
AsyncConnectSendFailed(t) ==
    /\ tasks[t].pc = "connect_send"
    /\ Except(t, tasks[t], "RCONConnectError")
    /\ UNCHANGED id_seq

\* the answer to the AUTH packet was read: its type and its id are
\* checked, the id against the value id_seq has by then
AsyncConnectRecvDone(t) ==
    /\ tasks[t].pc = "connect_recv"
    /\ Usable(t)
    /\ \E response \in {RCONMessage(i, type, NoneStr) :
                            i \in {-1, 0}, type \in {AUTH_RESPONSE, RESPONSE_VALUE}} :
          LET me == [tasks[t] EXCEPT !.nrecv = 1]
              verdict == auth_verdict(response, id_seq)
          IN  IF verdict[1] = "none"
              THEN /\ tasks' = [tasks EXCEPT ![t] = Finished(me, "none")]
                   /\ UNCHANGED <<rcon_socket, rcon_failure, open_socks,
                                  sock_count, socket_locked>>
              ELSE Except(t, me, verdict[1])
    /\ UNCHANGED id_seq

\* a read of receive_exactly in connect returned bytes that do not end the
\* packet: the next read is made on what rcon_socket holds by then, and
\* fails at once (RCONReceiveError, turned into RCONConnectError) when that
\* is None
AsyncConnectRecvPart(t) ==
    /\ tasks[t].pc = "connect_recv"
    /\ Usable(t)
    /\ UNCHANGED id_seq
    /\ IF rcon_socket = None
       THEN Except(t, tasks[t], "RCONConnectError")
       ELSE /\ tasks' = [tasks EXCEPT ![t].sock = rcon_socket]
            /\ UNCHANGED <<rcon_socket, rcon_failure, open_socks, sock_count,
                           socket_locked>>

\* receive_packet raised in connect: RCONConnectError
AsyncConnectRecvFailed(t) ==
    /\ tasks[t].pc = "connect_recv"
    /\ Except(t, tasks[t], "RCONConnectError")
    /\ UNCHANGED id_seq

\* close is called: with a socket, its aclose() is awaited
AsyncClose(t) ==
    /\ tasks[t].pc = "idle"
    /\ Calls < MaxCalls
    /\ LET me == Begin(t, "close", 0)
       IN  IF rcon_socket # None
           THEN /\ open_socks' = open_socks \ {rcon_socket}
                /\ tasks' = [tasks EXCEPT ![t] =
                       [me EXCEPT !.pc = "close", !.sock = rcon_socket]]
           ELSE /\ tasks' = [tasks EXCEPT ![t] = Finished(me, "none")]
                /\ UNCHANGED open_socks
    /\ UNCHANGED <<rcon_socket, rcon_failure, id_seq, sock_count, socket_locked>>

\* close, after the await: rcon_socket = None
AsyncClosed(t) ==
    /\ tasks[t].pc = "close"
    /\ rcon_socket' = None
    /\ tasks' = [tasks EXCEPT ![t] = Finished(tasks[t], "none")]
    /\ UNCHANGED <<rcon_failure, id_seq, open_socks, sock_count, socket_locked>>

\* __aenter__ is called (async with): on a client without a socket or
\* failed it awaits connect(), here up to the first await of connect; on a
\* Ready client it returns at once
AsyncEnter(t) ==
    /\ tasks[t].pc = "idle"
    /\ Calls < MaxCalls
    /\ LET me == Begin(t, "aenter", 0)
       IN  IF rcon_socket # None /\ ~rcon_failure
           THEN /\ tasks' = [tasks EXCEPT ![t] = Finished(me, "none")]
                /\ UNCHANGED <<rcon_failure, open_socks>>
           ELSE IF rcon_socket # None
           THEN /\ open_socks' = open_socks \ {rcon_socket}
                /\ tasks' = [tasks EXCEPT ![t] =
                       [me EXCEPT !.pc = "connect_close", !.sock = rcon_socket]]
                /\ UNCHANGED rcon_failure
           ELSE /\ rcon_failure' = FALSE
                /\ tasks' = [tasks EXCEPT ![t] = [me EXCEPT !.pc = "connect_tcp"]]
                /\ UNCHANGED open_socks
    /\ UNCHANGED <<rcon_socket, id_seq, sock_count, socket_locked>>

\* __aexit__ is called: it awaits close()
AsyncExit(t) ==
    /\ tasks[t].pc = "idle"
    /\ Calls < MaxCalls
    /\ LET me == Begin(t, "aexit", 0)
       IN  IF rcon_socket # None
           THEN /\ open_socks' = open_socks \ {rcon_socket}
                /\ tasks' = [tasks EXCEPT ![t] =
                       [me EXCEPT !.pc = "close", !.sock = rcon_socket]]
           ELSE /\ tasks' = [tasks EXCEPT ![t] = Finished(me, "none")]
                /\ UNCHANGED open_socks
    /\ UNCHANGED <<rcon_socket, rcon_failure, id_seq, sock_count, socket_locked>>

InitAsync ==
    /\ InitClient
    /\ call = Idle
    /\ lockout = FALSE
    /\ just_closed = FALSE
    /\ tasks = [t \in Tasks |-> CoroutineIdle]
    /\ frame = FrameIdle("AsyncRCONClient")

NextAsync ==
    \/ \E t \in Tasks : AsyncSendCommands(t) /\ UNCHANGED blocking_vars
    \/ \E t \in Tasks : AsyncSendDone(t) /\ UNCHANGED blocking_vars
    \/ \E t \in Tasks : AsyncSendFailed(t) /\ UNCHANGED blocking_vars
    \/ \E t \in Tasks : AsyncRecvDone(t) /\ UNCHANGED blocking_vars
    \/ \E t \in Tasks : AsyncRecvPart(t) /\ UNCHANGED blocking_vars
    \/ \E t \in Tasks : AsyncRecvFailed(t) /\ UNCHANGED blocking_vars
    \/ \E t \in Tasks : Excepted(t) /\ UNCHANGED blocking_vars
    \/ \E t \in Tasks : AsyncConnect(t) /\ UNCHANGED blocking_vars
    \/ \E t \in Tasks : AsyncConnectClosed(t) /\ UNCHANGED blocking_vars
    \/ \E t \in Tasks : AsyncConnectTcpDone(t) /\ UNCHANGED blocking_vars
    \/ \E t \in Tasks : AsyncConnectTcpFailed(t) /\ UNCHANGED blocking_vars
    \/ \E t \in Tasks : AsyncConnectSendDone(t) /\ UNCHANGED blocking_vars
    \/ \E t \in Tasks : AsyncConnectSendFailed(t) /\ UNCHANGED blocking_vars
    \/ \E t \in Tasks : AsyncConnectRecvDone(t) /\ UNCHANGED blocking_vars
    \/ \E t \in Tasks : AsyncConnectRecvPart(t) /\ UNCHANGED blocking_vars
    \/ \E t \in Tasks : AsyncConnectRecvFailed(t) /\ UNCHANGED blocking_vars
    \/ \E t \in Tasks : AsyncClose(t) /\ UNCHANGED blocking_vars
    \/ \E t \in Tasks : AsyncClosed(t) /\ UNCHANGED blocking_vars
    \/ \E t \in Tasks : AsyncEnter(t) /\ UNCHANGED blocking_vars
    \/ \E t \in Tasks : AsyncExit(t) /\ UNCHANGED blocking_vars

SpecAsync == InitAsync /\ [][NextAsync]_vars

---------------------------------------------------------------------------
(* Specification SpecFrame: one caller of a client of either class, with   *)
(* the server's answers given as the bytes the socket delivers.            *)

\* the messages given to build_message: ids and types over the signed
\* 32-bit range, bodies absent, empty, and with characters of one, two and
\* three bytes
Messages ==
    {RCONMessage(i, t, b) :
        i \in {-2147483647 - 1, -1, 0, 1, 256, INT32_MAX},
        t \in {-1, RESPONSE_VALUE, EXECCOMMAND, AUTH, INT32_MAX},
        b \in {NoneStr, Some(<<>>), Some(<<"x">>), Some(<<"\n">>),
               Some(<<"c", "1", " ", "U+00E9">>), Some(<<"U+20AC", "x", "\n">>)}}

\* the bodies of the packets a server sends
WireBodies == {NoneStr, Some(<<"\n">>), Some(<<"x", "U+00E9", "\n">>)}

\* the bytes of the packets answering the ids, in order, each with body
RECURSIVE Answers(_, _, _)
Answers(ids, type, body) ==
    IF ids = <<>> THEN <<>>
    ELSE build_message(RCONMessage(Head(ids), type, body))
         \o Answers(Tail(ids), type, body)

Reverse(seq) == [i \in 1..Len(seq) |-> seq[Len(seq) + 1 - i]]

\* the first packet of data with its length field set to length
WithLength(data, length) == pack_int32(length) \o Drop(data, 4)

\* the first packet of data with the byte at position k set to b
WithByte(data, k, b) == [i \in 1..Len(data) |-> IF i = k THEN b ELSE data[i]]

\* what a server may deliver in answer to packets with the ids: whole
\* answers in the order of the ids or in the reverse order; answers cut at
\* any byte; answers whose first packet declares a length of 0, of less
\* than fixed_length, of one less and one more than it has, or of 2**31 - 1;
\* answers with a body that is not UTF-8; each followed by the peer's close,
\* by a socket error or by a timeout
ByteStreams(ids, type) ==
    LET whole == {Answers(o, type, b) : o \in {ids, Reverse(ids)}, b \in WireBodies}
        cut == UNION {{Take(w, k) : k \in 0..(Len(w) - 1)} : w \in whole}
        relabelled ==
            {WithLength(w, l) : w \in whole,
                                l \in {0, 1, fixed_length - 1, INT32_MAX}}
            \cup {WithLength(w, unpack_int32(Take(w, 4)) + d) :
                     w \in whole, d \in {-1, 1}}
        undecodable == {WithByte(w, 13, 255) :
                           w \in {x \in whole : unpack_int32(Take(x, 4)) > fixed_length}}
    IN  {Stream(d, e) : d \in whole \cup cut \cup relabelled \cup undecodable,
                        e \in Endings}

OtherVariant(variant) == CHOOSE v \in Variants : v # variant

\* connect on the bytes of a stream
connect_on(variant, st, stream) ==
    connect(st, Script(TRUE, TRUE, read_events(variant, stream, 1)[1], 0, <<>>))

\* send_commands on the bytes of a stream
send_commands_on(variant, st, cmds, stream) ==
    send_commands(st, cmds,
        Script(TRUE, TRUE, ErrorEvent("closed"), 0,
               read_events(variant, stream, Len(cmds))))

InitFrame ==
    /\ InitClient
    /\ call = Idle
    /\ lockout = FALSE
    /\ just_closed = FALSE
    /\ tasks = <<>>
    /\ \E variant \in Variants : frame = FrameIdle(variant)

\* build_message on a message and parse_message on its result, with the
\* length that receive_packet reads from the first four bytes
BuildAndParse ==
    /\ frame.op = "idle"
    /\ \E message \in Messages :
          LET packet == build_message(message)
          IN  frame' = [FrameIdle(frame.variant) EXCEPT
                           !.op = "build_message", !.message = message,
                           !.packet = packet,
                           !.parsed = parse_message(packet, from_bytes(Take(packet, 4)))]
    /\ UNCHANGED <<rcon_socket, rcon_failure, id_seq, socket_locked, open_socks,
                   sock_count, call, lockout, just_closed, tasks>>

\* the byte sequences handed to parse_message: packets as build_message
\* makes them; packets with a byte missing or a byte too many; packets whose
\* last byte or last but one is not NUL; packets with a body that is not
\* UTF-8; packets whose length field is one off
ParseInputs ==
    LET whole == {build_message(RCONMessage(1, RESPONSE_VALUE, b)) :
                     b \in WireBodies}
    IN  whole
        \cup {Take(w, Len(w) - 1) : w \in whole}
        \cup {w \o <<0>> : w \in whole}
        \cup {WithByte(w, Len(w), 7) : w \in whole}
        \cup {WithByte(w, Len(w) - 1, 7) : w \in whole}
        \cup {WithByte(WithByte(w, Len(w), 7), Len(w) - 1, 7) : w \in whole}
        \cup {WithByte(w, 13, 255) :
                 w \in {x \in whole : unpack_int32(Take(x, 4)) > fixed_length}}
        \cup {WithLength(w, unpack_int32(Take(w, 4)) + d) :
                 w \in whole, d \in {-1, 1}}

\* the record of a call parse_message(message, length)
ParseFrame(variant, message, length) ==
    ("length" :> length)
    @@ [FrameIdle(variant) EXCEPT !.op = "parse_message", !.packet = message,
                                  !.parsed = parse_message(message, length)]

\* parse_message on a byte sequence, with the length that receive_packet
\* reads from its first four bytes or with the number of bytes that follow
\* them
ParseBytes ==
    /\ frame.op = "idle"
    /\ \E message \in ParseInputs :
       \E length \in {from_bytes(Take(message, 4)), Len(message) - 4} :
          frame' = ParseFrame(frame.variant, message, length)
    /\ UNCHANGED <<rcon_socket, rcon_failure, id_seq, socket_locked, open_socks,
                   sock_count, call, lockout, just_closed, tasks>>

\* the streams read in pieces: two packets back to back, whole or cut
\* short in the second packet, then the peer's close, a socket error or a
\* timeout
ChunkStreams ==
    LET whole == {Answers(<<1, 2>>, RESPONSE_VALUE, b) : b \in WireBodies}
    IN  {Stream(w, e) : w \in whole, e \in Endings}
        \cup {Stream(Take(w, Len(w) - 3), "closed") : w \in whole}

\* the record of a receive_packet call on a stream delivered in pieces
ReceiveFrame(variant, stream, chunks) ==
    ("chunks" :> chunks)
    @@ ("got" :> IF rcon_socket = None
                 THEN Received("RCONNotConnected", "NOT_CONNECTED", <<>>, stream)
                 ELSE receive_packet_in_chunks(variant, stream, chunks))
    @@ [FrameIdle(variant) EXCEPT !.op = "receive_packet", !.before = St,
                                  !.stream = stream]

\* one receive_packet call: without a socket it raises RCONNotConnected and
\* reads nothing; with one, the bytes of stream arrive in the pieces of a
\* schedule
ReceiveInChunks ==
    /\ frame.op = "idle"
    /\ \E stream \in ChunkStreams :
       \E chunks \in Schedules :
          frame' = ReceiveFrame(frame.variant, stream, chunks)
    /\ UNCHANGED <<rcon_socket, rcon_failure, id_seq, socket_locked, open_socks,
                   sock_count, call, lockout, just_closed, tasks>>

\* connect, the server answering the AUTH packet with the bytes of stream
ConnectOnStream ==
    /\ frame.op = "idle"
    /\ sock_count < MaxConnects
    /\ \E type \in {AUTH_RESPONSE, RESPONSE_VALUE} :
       \E stream \in ByteStreams(<<0>>, type) \cup ByteStreams(<<-1>>, type) :
          LET out == connect_on(frame.variant, St, stream)
          IN  /\ SetState(out.st)
              /\ frame' = [FrameIdle(frame.variant) EXCEPT
                              !.op = "connect", !.before = St, !.stream = stream,
                              !.out = out,
                              !.other = connect_on(OtherVariant(frame.variant),
                                                   St, stream)]
    /\ UNCHANGED <<socket_locked, call, lockout, just_closed, tasks>>

\* send_commands on a Ready client, the server answering with the bytes of
\* stream
SendCommandsOnStream ==
    /\ frame.op = "idle"
    /\ Ready(St)
    /\ \E cmds \in DistinctBatches \ {<<>>} :
          /\ id_seq + Len(cmds) <= MaxSeq
          /\ \E stream \in ByteStreams(minted(id_seq, Len(cmds)), RESPONSE_VALUE) :
                LET out == send_commands_on(frame.variant, St, cmds, stream)
                IN  /\ SetState(out.st)
                    /\ frame' = [FrameIdle(frame.variant) EXCEPT
                                    !.op = "send_commands", !.before = St,
                                    !.cmds = cmds, !.stream = stream, !.out = out,
                                    !.other = send_commands_on(
                                                  OtherVariant(frame.variant),
                                                  St, cmds, stream)]
    /\ UNCHANGED <<socket_locked, call, lockout, just_closed, tasks>>

\* the caller has taken the result or the exception of the operation
FrameReturn ==
    /\ frame.op # "idle"
    /\ frame' = FrameIdle(frame.variant)
    /\ UNCHANGED <<rcon_socket, rcon_failure, id_seq, socket_locked, open_socks,
                   sock_count, call, lockout, just_closed, tasks>>

NextFrame ==
    \/ BuildAndParse
    \/ ParseBytes
    \/ ReceiveInChunks
    \/ ConnectOnStream
    \/ SendCommandsOnStream
    \/ FrameReturn

SpecFrame == InitFrame /\ [][NextFrame]_vars

---------------------------------------------------------------------------
(* Specification SpecReads: the reads of one send_commands call of         *)
(* RCONClient, recv call by recv call, while the server delivers its       *)
(* answers piece by piece.  tasks holds the call in progress.              *)

\* the call: its place (idle; in receive_exactly(4): head; in
\* receive_exactly(length): body; ended: done), the keys of the commands,
\* the responses read so far, the size asked of receive_exactly and its
\* buffer, the four bytes of the length prefix, the bytes that arrived and
\* were not read yet (wire), the bytes the server has still to deliver,
\* whether the server closes after its last byte, whether it has closed,
\* the number of bytes read from the socket, the outcome of the call, and
\* all that the server delivers during the call (stream)
ReaderIdle ==
    [pc |-> "idle", cmds |-> <<>>, responses |-> <<>>, size |-> 0,
     buffer |-> <<>>, data |-> <<>>, wire |-> <<>>, server |-> <<>>,
     closes |-> FALSE, closed |-> FALSE, taken |-> 0, exc |-> "none",
     results |-> <<>>, stream |-> <<>>]

\* the call ends, raising exc or returning results
Ends(p, exc, results) == [p EXCEPT !.pc = "done", !.exc = exc, !.results = results]

\* receive_exactly has its size bytes.  After receive_exactly(4):
\* receive_exactly(length) is called, which returns an empty buffer at once
\* when length is 0 (RCONClosed).  After receive_exactly(length):
\* parse_message, and either the next receive_packet call or, after the
\* last, the loop over the responses
Completed(p) ==
    IF p.pc = "head"
    THEN IF from_bytes(p.buffer) = 0 THEN Ends(p, "RCONClosed", <<>>)
         ELSE [p EXCEPT !.pc = "body", !.data = p.buffer, !.buffer = <<>>,
                        !.size = from_bytes(p.buffer)]
    ELSE LET parsed == parse_message(p.data \o p.buffer, p.size)
             responses == Append(p.responses, parsed.pkt)
             n == Len(p.cmds)
             done == handle_responses(responses, id_map_of(minted(0, n), p.cmds),
                                      <<>>, 1)
         IN  IF parsed.exc # "none" THEN Ends(p, parsed.exc, <<>>)
             ELSE IF Len(responses) < n
             THEN [p EXCEPT !.pc = "head", !.responses = responses,
                            !.buffer = <<>>, !.data = <<>>, !.size = 4]
             ELSE Ends([p EXCEPT !.responses = responses], done.exc, done.results)

\* (mutant) the loop of receive_exactly without the test for an empty read
recv_step_no_empty_test(p) ==
    LET read_data == Take(p.wire, Min(Min(p.size - Len(p.buffer), RECV_SIZE),
                                      Len(p.wire)))
        q == [p EXCEPT !.buffer = @ \o read_data,
                       !.wire = Drop(@, Len(read_data)),
                       !.taken = @ + Len(read_data)]
    IN  IF Len(q.buffer) < q.size THEN q ELSE Completed(q)

\* one pass of the loop of receive_exactly, from the return of recv to the
\* next recv call.  recv returns no more than it is asked for and than has
\* arrived; an empty read makes receive_exactly return b"" and
\* receive_packet raise RCONClosed
recv_step(p) ==
    LET read_data == Take(p.wire, Min(Min(p.size - Len(p.buffer), RECV_SIZE),
                                      Len(p.wire)))
        q == [p EXCEPT !.buffer = @ \o read_data,
                       !.wire = Drop(@, Len(read_data)),
                       !.taken = @ + Len(read_data)]
    IN  IF read_data = <<>> THEN Ends(p, "RCONClosed", <<>>)
        ELSE IF Len(q.buffer) < q.size THEN q ELSE Completed(q)

\* what the server has to deliver in answer to n commands: the n answers,
\* one answer more than that, the answers without their last bytes, or
\* nothing
ServerStreams(n) ==
    LET body == Some(<<"x", "\n">>)
        whole == Answers(minted(0, n), RESPONSE_VALUE, body)
        more == Answers(minted(0, n + 1), RESPONSE_VALUE, body)
    IN  {whole, more, Take(whole, Len(whole) - 3), <<>>}

InitReads ==
    /\ rcon_socket = 1
    /\ rcon_failure = FALSE
    /\ id_seq = 0
    /\ socket_locked = FALSE
    /\ open_socks = {1}
    /\ sock_count = 1
    /\ call = Idle
    /\ lockout = FALSE
    /\ just_closed = FALSE
    /\ tasks = ReaderIdle
    /\ frame = FrameIdle("RCONClient")

\* send_commands on a client that is Ready and whose counter is 0, up to
\* the first recv call: the commands are sent.  The server will deliver a
\* stream; when the stream does not hold n whole packets the server closes
\* after it, else it closes or stays open
StartReading ==
    /\ tasks.pc = "idle"
    /\ Ready(St)
    /\ id_seq = 0
    /\ \E cmds \in {[i \in 1..n |-> i] : n \in 1..MaxBatch} :
       \E server \in ServerStreams(Len(cmds)) :
       \E closes \in BOOLEAN :
          /\ Len(server) < Len(Answers(minted(0, Len(cmds)), RESPONSE_VALUE,
                                       Some(<<"x", "\n">>)))
                => closes
          /\ tasks' = [ReaderIdle EXCEPT !.pc = "head", !.cmds = cmds, !.size = 4,
                                         !.server = server, !.closes = closes,
                                         !.stream = server]
          /\ id_seq' = minted(id_seq, Len(cmds))[Len(cmds)]
    /\ UNCHANGED <<rcon_socket, rcon_failure, socket_locked, open_socks,
                   sock_count, call, lockout, just_closed, frame>>

\* the next piece of the server's stream arrives
Deliver ==
    /\ tasks.pc \in {"head", "body", "done"}
    /\ tasks.server # <<>>
    /\ \E c \in {MaxChunk, RECV_SIZE} :
          tasks' = [tasks EXCEPT !.wire = @ \o Take(tasks.server, Min(c, Len(tasks.server))),
                                 !.server = Drop(@, Min(c, Len(tasks.server)))]
    /\ UNCHANGED <<rcon_socket, rcon_failure, id_seq, socket_locked, open_socks,
                   sock_count, call, lockout, just_closed, frame>>

\* the server closes the connection after its last byte
PeerClose ==
    /\ tasks.pc \in {"head", "body", "done"}
    /\ tasks.server = <<>>
    /\ tasks.closes
    /\ ~tasks.closed
    /\ tasks' = [tasks EXCEPT !.closed = TRUE]
    /\ UNCHANGED <<rcon_socket, rcon_failure, id_seq, socket_locked, open_socks,
                   sock_count, call, lockout, just_closed, frame>>

\* a recv call returns: bytes have arrived, or the peer has closed.  When
\* the call ends by an exception the error guard of send_commands acts
Recv ==
    /\ tasks.pc \in {"head", "body"}
    /\ tasks.wire # <<>> \/ tasks.closed
    /\ \E p \in {recv_step(tasks)} :
          /\ tasks' = p
          /\ IF p.pc = "done" /\ p.exc # "none" THEN SetState(on_exception(St))
             ELSE UNCHANGED <<rcon_socket, rcon_failure, id_seq, open_socks,
                              sock_count>>
    /\ UNCHANGED <<socket_locked, call, lockout, just_closed, frame>>

\* a recv call raises: a timeout or a socket error (RCONReceiveError)
RecvRaises ==
    /\ tasks.pc \in {"head", "body"}
    /\ tasks' = Ends(tasks, "RCONReceiveError", <<>>)
    /\ SetState(on_exception(St))
    /\ UNCHANGED <<socket_locked, call, lockout, just_closed, frame>>

NextReads == StartReading \/ Deliver \/ PeerClose \/ Recv \/ RecvRaises

\* every recv call returns once bytes have arrived or the peer has closed;
\* the server delivers its stream, and closes after it when it is to close
SpecReads ==
    /\ InitReads
    /\ [][NextReads]_vars
    /\ WF_vars(Recv)
    /\ WF_vars(Deliver)
    /\ WF_vars(PeerClose)

---------------------------------------------------------------------------
(* Properties of the blocking client (Spec) *)

IsSend == call.op \in {"send_commands", "send_command"}

\* the ids the call's batch was given, in the order of the commands
IdsOf(c) == minted(c.before.id_seq, Len(c.cmds))

\* the reads of the call that returned a packet
Arrived(c) ==
    {i \in 1..Len(c.script.reads) :
        /\ i <= c.nread
        /\ c.script.reads[i].kind = "packet"}

\* the server answers each id of the batch exactly once, with a
\* RESPONSE_VALUE packet, and nothing fails
AnsweredOnce(c) ==
    /\ c.script.send_fail = 0
    /\ Len(c.script.reads) = Len(c.cmds)
    /\ \A i \in 1..Len(c.cmds) :
          /\ c.script.reads[i].kind = "packet"
          /\ c.script.reads[i].type = RESPONSE_VALUE
    /\ \A j \in 1..Len(c.cmds) :
          Cardinality({i \in 1..Len(c.cmds) : c.script.reads[i].id = IdsOf(c)[j]}) = 1

\* the body of the response bearing id, as the caller is given it: None
\* when empty, else the text without its trailing whitespace
BodyFor(c, id) ==
    LET i == CHOOSE i \in 1..Len(c.script.reads) : c.script.reads[i].id = id
        data == c.script.reads[i].data
    IN  IF data = <<>> THEN NoneStr ELSE Some(rstrip(data))

\* C1: on a Ready client, when the server answers every id of a batch of
\* distinct keys exactly once with a RESPONSE_VALUE packet, in whatever
\* order, send_commands returns a mapping with exactly the keys of the
\* batch, each key mapped to the body of the response that bears the id
\* minted for that key.
C1_IdCorrelation ==
    (call.op = "send_commands" /\ Ready(call.before) /\ AnsweredOnce(call)) =>
        /\ call.exc = "none"
        /\ DOMAIN call.results = {call.cmds[j] : j \in 1..Len(call.cmds)}
        /\ \A j \in 1..Len(call.cmds) :
              call.results[call.cmds[j]] = BodyFor(call, IdsOf(call)[j])

\* two commands answered in the reverse order, with different bodies
C1_Witness ==
    /\ call.op = "send_commands"
    /\ Ready(call.before)
    /\ AnsweredOnce(call)
    /\ Len(call.cmds) = 2
    /\ call.script.reads[1].id = IdsOf(call)[2]
    /\ call.script.reads[2].id = IdsOf(call)[1]
    /\ call.script.reads[1].data # call.script.reads[2].data
    /\ call.exc = "none"

\* a response with an id that is not an id of the batch arrived
UnknownIdArrived(c) ==
    \E i \in Arrived(c) :
        c.script.reads[i].id \notin {IdsOf(c)[j] : j \in 1..Len(c.cmds)}

\* C2 as stated: when a response bearing an id that is not pending arrives
\* during send_commands on a Ready client, the call fails with
\* InvalidResponse and returns no mapping.
C2_Original ==
    (call.op = "send_commands" /\ Ready(call.before) /\ UnknownIdArrived(call)) =>
        /\ call.exc = "InvalidResponse"
        /\ call.results = <<>>

\* what the code does in the case of C2 (the ids are checked after the
\* last read, see C22): when a response bearing an id that is not pending
\* arrives during send_commands on a Ready client, the call fails and
\* returns no mapping; it fails with InvalidResponse when all the responses
\* of the batch were received, and otherwise with the error of the
\* receive_packet call that failed.
C2_UnknownIdFails ==
    (call.op = "send_commands" /\ Ready(call.before) /\ UnknownIdArrived(call)) =>
        /\ call.exc # "none"
        /\ call.results = <<>>
        /\ Arrived(call) = 1..Len(call.cmds) => call.exc = "InvalidResponse"
        /\ Arrived(call) # 1..Len(call.cmds) =>
              /\ call.nread = Cardinality(Arrived(call)) + 1
              /\ call.exc = receive_packet(call.script.reads[call.nread]).exc

\* a response of the batch, then one with an unknown id: InvalidResponse,
\* and the result of the first response is not returned
C2_Witness ==
    /\ call.op = "send_commands"
    /\ Ready(call.before)
    /\ Len(call.cmds) = 2
    /\ Arrived(call) = {1, 2}
    /\ call.script.reads[1].id = IdsOf(call)[1]
    /\ call.script.reads[1].type = RESPONSE_VALUE
    /\ call.script.reads[2].id \notin {IdsOf(call)[1], IdsOf(call)[2]}
    /\ call.exc = "InvalidResponse"
    /\ call.msg = "INVALID_ID"
    /\ call.results = <<>>

\* a send_commands call made now is refused with RCONNotConnected, whatever
\* the batch
RefusesCommands(st) ==
    /\ \A cmds \in DistinctBatches :
          send_commands(st, cmds, NoScript).exc = "RCONNotConnected"
    /\ send_command(st, NoScript).exc = "RCONNotConnected"

\* C5: after an I/O error (send error, receive error or timeout, peer
\* close) in a send_commands/send_command call made in the Ready state,
\* every send_commands/send_command call fails with RCONNotConnected until
\* connect is called: no other operation makes the client accept commands.
C5_PostFailureLockout ==
    lockout =>
        /\ ~Ready(St)
        /\ RefusesCommands(St)
        /\ (IsSend /\ call.lockout) => call.exc = "RCONNotConnected"

\* a command refused after an I/O error, a close() having been called in
\* between
C5_Witness ==
    /\ lockout
    /\ call.op = "send_command"
    /\ call.lockout
    /\ call.after_close
    /\ call.exc = "RCONNotConnected"

\* C6: when send_commands or send_command started in the Ready state ends
\* with an exception, the client is marked failed and its socket is closed
\* and released.
C6_FailureClosesTransport ==
    (IsSend /\ Ready(call.before) /\ call.exc # "none") =>
        /\ rcon_failure
        /\ rcon_socket = None
        /\ call.before.rcon_socket \notin open_socks

\* a response of the wrong type ended the call
C6_Witness ==
    /\ IsSend
    /\ Ready(call.before)
    /\ call.exc = "InvalidResponse"
    /\ call.msg = "INVALID_TYPE"
    /\ rcon_failure

\* the auth reply of the connect call, when one was received
AuthReplied(c) ==
    /\ c.op = "connect"
    /\ c.script.tcp
    /\ c.script.send
    /\ c.script.reply.kind = "packet"

\* C7: when the auth reply is an authentication response with id -1,
\* connect fails with InvalidPassword and the next send_command or
\* send_commands fails with RCONNotConnected.
C7_WrongPassword ==
    (/\ AuthReplied(call)
     /\ call.script.reply.type = AUTH_RESPONSE
     /\ call.script.reply.id = -1) =>
        /\ call.exc = "InvalidPassword"
        /\ ~Ready(St)
        /\ RefusesCommands(St)

\* a wrong password on a client that was Ready
C7_Witness ==
    /\ AuthReplied(call)
    /\ call.script.reply.type = AUTH_RESPONSE
    /\ call.script.reply.id = -1
    /\ Ready(call.before)
    /\ call.exc = "InvalidPassword"

\* C8 as stated: an auth reply with id -1 makes connect fail with
\* InvalidPassword, whatever its type.
C8_Original ==
    (AuthReplied(call) /\ call.script.reply.id = -1) =>
        call.exc = "InvalidPassword"

\* C8 amended: an auth reply with id -1 makes connect fail with
\* InvalidPassword when its type is AUTH_RESPONSE (2); with any other type
\* connect fails with InvalidResponse (unexpected type).
C8_TypeCheckedFirst ==
    (AuthReplied(call) /\ call.script.reply.id = -1) =>
        /\ call.script.reply.type = AUTH_RESPONSE => call.exc = "InvalidPassword"
        /\ call.script.reply.type # AUTH_RESPONSE =>
              (call.exc = "InvalidResponse" /\ call.msg = "INVALID_TYPE")

\* an auth reply with id -1 and type RESPONSE_VALUE
C8_Witness ==
    /\ AuthReplied(call)
    /\ call.script.reply.id = -1
    /\ call.script.reply.type = RESPONSE_VALUE
    /\ call.exc = "InvalidResponse"

\* C9: connect succeeds, leaving the client Ready, exactly when the auth
\* reply has type AUTH_RESPONSE and id 0; a reply of another type, or of
\* that type with an id that is neither 0 nor -1, makes it fail with
\* InvalidResponse; every failing connect leaves the client marked failed
\* with its socket closed.
C9_ConnectOutcome ==
    call.op = "connect" =>
        /\ call.exc = "none" <=>
              (/\ AuthReplied(call)
               /\ call.script.reply.type = AUTH_RESPONSE
               /\ call.script.reply.id = 0)
        /\ call.exc = "none" =>
              (Ready(St) /\ rcon_socket \in open_socks)
        /\ (/\ AuthReplied(call)
            /\ \/ call.script.reply.type # AUTH_RESPONSE
               \/ call.script.reply.id \notin {0, -1}) =>
              call.exc = "InvalidResponse"
        /\ call.exc # "none" =>
              (rcon_failure /\ rcon_socket = None /\ open_socks = {})

\* an authentication response with an id that is neither 0 nor -1
C9_Witness ==
    /\ AuthReplied(call)
    /\ call.script.reply.type = AUTH_RESPONSE
    /\ call.script.reply.id = 1
    /\ call.exc = "InvalidResponse"
    /\ call.msg = "INVALID_ID"
    /\ rcon_failure
    /\ rcon_socket = None

\* C10: close() returns without raising in every state and leaves the
\* socket released; a close() after a close() changes nothing.
C10_CloseIdempotent ==
    /\ close(St).rcon_socket = None
    /\ close(close(St)) = close(St)
    /\ call.op = "close" =>
          /\ call.exc = "none"
          /\ rcon_socket = None
          /\ open_socks = {}
          /\ rcon_failure = call.before.rcon_failure
          /\ id_seq = call.before.id_seq
          /\ call.after_close => St = call.before

\* a close() right after a close() that released the socket of a Ready
\* client
C10_Witness ==
    /\ call.op = "close"
    /\ call.after_close
    /\ sock_count > 0
    /\ ~rcon_failure

\* C11: send_command/send_commands on a client that is not Ready (no
\* socket, or the failure flag set) raises RCONNotConnected, writes no
\* packet, makes no read, and leaves rcon_socket, rcon_failure, id_seq and
\* the sockets as they were.
C11_NotReadyRefused ==
    (IsSend /\ ~Ready(call.before)) =>
        /\ call.exc = "RCONNotConnected"
        /\ call.sent = <<>>
        /\ call.nread = 0
        /\ St = call.before

\* a command was sent on a client that had failed, and on one never connected
C11_Witness ==
    /\ IsSend
    /\ call.before.rcon_failure
    /\ call.before.sock_count > 0
    /\ Len(call.cmds) > 0

\* the batch of call c was cut short: every command was sent, k < N
\* responses arrived as packets, and the next read met the event kind
CutShort(c, kind) ==
    /\ c.op \in {"send_commands", "send_command"}
    /\ Ready(c.before)
    /\ c.script.send_fail = 0
    /\ Len(c.script.reads) \in 1..Len(c.cmds)
    /\ c.script.reads[Len(c.script.reads)].kind = kind
    /\ \A i \in 1..(Len(c.script.reads) - 1) : c.script.reads[i].kind = "packet"

\* C12: when the peer closes, or delivers bytes that do not parse, after
\* k < N of the N responses of a batch arrived, send_commands returns no
\* mapping, raises RCONClosed or the parse failure (InvalidResponse), and
\* the socket is closed and dropped when the caller gets the error.
C12_BatchAborted ==
    \A kind \in {"closed", "garbled"} :
        CutShort(call, kind) =>
            /\ call.exc = (IF kind = "closed" THEN "RCONClosed" ELSE "InvalidResponse")
            /\ call.msg = (IF kind = "closed" THEN "CONN_CLOSED" ELSE "PARSE_FAILED")
            /\ call.results = <<>>
            /\ rcon_failure
            /\ rcon_socket = None
            /\ call.before.rcon_socket \notin open_socks

\* the peer closed after the first of two responses had arrived, a response
\* to a command of the batch
C12_Witness ==
    /\ CutShort(call, "closed")
    /\ Len(call.cmds) = 2
    /\ Len(call.script.reads) = 2
    /\ call.script.reads[1].id \in {IdsOf(call)[j] : j \in 1..2}
    /\ call.script.reads[1].type = RESPONSE_VALUE

\* the value the caller of c is given for the j-th command of the batch
ValueFor(c, j) ==
    IF c.op = "send_command" THEN c.results ELSE c.results[c.cmds[j]]

\* the body bytes of the response bearing the id of the j-th command
DataFor(c, j) ==
    LET i == CHOOSE i \in 1..Len(c.script.reads) : c.script.reads[i].id = IdsOf(c)[j]
    IN  c.script.reads[i].data

\* C13: a response whose body is empty or only whitespace (a bare newline)
\* is given to the caller of send_command/send_commands as None, never as
\* an empty string.  As stated by the claim; Spec reaches a state that
\* violates it.
C13_Original ==
    (IsSend /\ Ready(call.before) /\ AnsweredOnce(call) /\ call.exc = "none") =>
        \A j \in 1..Len(call.cmds) :
            /\ rstrip(DataFor(call, j)) = <<>> => ValueFor(call, j) = NoneStr
            /\ ValueFor(call, j) # Some(<<>>)

\* C18: when the block of a with statement is left, by its end or by an
\* exception (__exit__ has run), and when __enter__ raised because its
\* connect failed, rcon_socket is None and no socket is open.
C18_ScopedRelease ==
    (call.op = "exit" \/ (call.op = "enter" /\ call.exc # "none")) =>
        /\ rcon_socket = None
        /\ open_socks = {}

\* __exit__ ran on a client whose socket was open
C18_Witness ==
    /\ call.op = "exit"
    /\ call.before.rcon_socket # None
    /\ call.before.rcon_socket \in call.before.open_socks
    /\ ~call.before.rcon_failure

\* C19: connect raises RCONConnectError when the TCP connection cannot be
\* made and when send_packet fails or receive_packet meets the peer's
\* close or a socket error or timeout; the client is then failed, without
\* a socket, and no socket is open.
C19_ConnectError ==
    (/\ call.op = "connect"
     /\ \/ ~call.script.tcp
        \/ ~call.script.send
        \/ call.script.reply.kind \in {"closed", "error", "timeout"}) =>
        /\ call.exc = "RCONConnectError"
        /\ rcon_failure
        /\ rcon_socket = None
        /\ open_socks = {}

\* the peer closed before answering the AUTH packet of a reconnect
C19_Witness ==
    /\ call.op = "connect"
    /\ call.script.tcp
    /\ call.script.send
    /\ call.script.reply.kind = "closed"
    /\ call.before.rcon_socket # None
    /\ call.sent # <<>>

\* C20: when a send_commands call has made a read, all N EXECCOMMAND
\* packets were written before, in the iteration order of the commands,
\* the j-th with the id j after the id_seq the call started with and with
\* the command of the j-th key.
C20_SendBeforeReceive ==
    (IsSend /\ call.nread >= 1) =>
        /\ Len(call.sent) = Len(call.cmds)
        /\ \A j \in 1..Len(call.cmds) :
              call.sent[j] = RCONMessage(call.before.id_seq + j, EXECCOMMAND,
                                         Some(CmdText(call.cmds[j])))

\* a batch of two commands, the key 2 before the key 1, was sent and read
C20_Witness ==
    /\ call.op = "send_commands"
    /\ call.cmds = <<2, 1>>
    /\ call.nread = 2
    /\ call.before.id_seq > 0

\* C21 as stated: a mapping returned by send_commands on a Ready client
\* contains every key of the batch, whatever the server sent, two responses
\* bearing the same pending id included.
C21_Original ==
    (call.op = "send_commands" /\ Ready(call.before) /\ call.exc = "none") =>
        {call.cmds[j] : j \in 1..Len(call.cmds)} \subseteq DOMAIN call.results

\* the first read that returned a packet whose id is not an id of the batch
FirstUnknown(c) ==
    LET unknown == {i \in Arrived(c) :
                       c.script.reads[i].id \notin
                           {IdsOf(c)[j] : j \in 1..Len(c.cmds)}}
    IN  CHOOSE i \in unknown : \A k \in unknown : i <= k

\* C22 as stated: when a response bearing an id that is not pending is
\* decoded during send_commands on a Ready client, the call fails with
\* InvalidResponse without reading another packet, whatever the transport
\* holds after that response.
C22_Original ==
    (call.op = "send_commands" /\ Ready(call.before) /\ UnknownIdArrived(call)) =>
        /\ call.exc = "InvalidResponse"
        /\ call.nread = FirstUnknown(call)

\* a response with an id of the batch and a type other than RESPONSE_VALUE
\* arrived
WrongTypeArrived(c) ==
    \E i \in Arrived(c) :
        /\ c.script.reads[i].id \in {IdsOf(c)[j] : j \in 1..Len(c.cmds)}
        /\ c.script.reads[i].type # RESPONSE_VALUE

\* C23 as stated: when a response bearing a pending id and a type other
\* than RESPONSE_VALUE arrives during send_commands on a Ready client, the
\* call fails with InvalidResponse and the connection is marked failed; a
\* response with an unknown id and such a type is reported as an unknown id.
C23_Original ==
    (call.op = "send_commands" /\ Ready(call.before)) =>
        /\ WrongTypeArrived(call) =>
              /\ call.exc = "InvalidResponse"
              /\ rcon_failure
        /\ (/\ UnknownIdArrived(call)
            /\ call.script.reads[FirstUnknown(call)].type # RESPONSE_VALUE
            /\ \A k \in 1..(FirstUnknown(call) - 1) :
                  call.script.reads[k].type = RESPONSE_VALUE) =>
              /\ call.exc = "InvalidResponse"
              /\ call.msg = "INVALID_ID"

\* C25: a call of get_id returns the new value of the counter, which is the
\* value before the call plus one, or 0 when the value before the call was
\* 2**31 - 1; the value returned lies in 0..2**31 - 1 and is never -1.
C25_SequenceWraps ==
    call.op = "get_id" =>
        /\ call.results = id_seq
        /\ IF call.before.id_seq = INT32_MAX
           THEN call.results = 0
           ELSE call.results - 1 = call.before.id_seq
        /\ call.results >= 0
        /\ call.results <= INT32_MAX
        /\ call.results # -1

\* get_id called with the counter at 2**31 - 1
C25_Witness ==
    /\ call.op = "get_id"
    /\ call.before.id_seq = INT32_MAX
    /\ call.results = 0

\* the ids of the packets a call wrote
SentIds(c) == [j \in 1..Len(c.sent) |-> c.sent[j].id]

\* C26: the ids that one send_commands call on a Ready client gives to its
\* commands are pairwise distinct, whatever the value of the counter before
\* the call, also when the counter wraps inside the batch, so that id_map
\* has one entry for each command.
C26_DistinctIds ==
    (/\ call.op = "send_commands"
     /\ Ready(call.before)
     /\ call.script.send_fail = 0) =>
        /\ Len(call.sent) = Len(call.cmds)
        /\ \A i, j \in 1..Len(call.sent) :
              call.sent[i].id = call.sent[j].id => i = j
        /\ Cardinality(DOMAIN id_map_of(SentIds(call), call.cmds))
              = Len(call.cmds)

\* a batch of two whose ids are 2**31 - 1 and 0
C26_Witness ==
    /\ call.op = "send_commands"
    /\ Ready(call.before)
    /\ call.script.send_fail = 0
    /\ Len(call.cmds) = 2
    /\ call.before.id_seq = INT32_MAX - 1
    /\ SentIds(call) = <<INT32_MAX, 0>>
    /\ call.exc = "none"

\* C27: a connect call whose TCP connection is established leaves the
\* counter at 0; when its AUTH packet is sent, that packet (type AUTH, id 0,
\* the password as body) is the only packet the call writes and the call
\* reads one packet; the first command sent after a connect call that
\* returned carries the id 1, whatever the counter was before the connect.
C27_AuthExchange ==
    /\ (call.op = "connect" /\ call.script.tcp) =>
          /\ id_seq = 0
          /\ Len(call.sent) <= 1
          /\ call.nread <= 1
          /\ call.script.send =>
                /\ call.sent = <<RCONMessage(0, AUTH, Some(Password))>>
                /\ call.nread = 1
    /\ (IsSend /\ call.connected_from >= 0 /\ call.sent # <<>>) =>
          call.sent[1].id = 1

\* a command sent right after a reconnect that found the counter above 0
C27_Witness ==
    /\ IsSend
    /\ call.connected_from > 0
    /\ call.sent # <<>>
    /\ call.sent[1].id = 1
    /\ call.exc = "none"

\* the server accepts the password: it answers the AUTH packet with an
\* AUTH_RESPONSE packet bearing the id 0
AuthAccepted(c) ==
    /\ c.script.tcp
    /\ c.script.send
    /\ c.script.reply.kind = "packet"
    /\ c.script.reply.type = AUTH_RESPONSE
    /\ c.script.reply.id = 0

\* C28: a connect call whose authentication succeeds returns and leaves the
\* client Ready, with an open socket, the failure flag cleared and the
\* counter at 0, whatever the state before it (never connected, closed,
\* failed, with or without a socket); the send_commands or send_command
\* call that follows it is not refused with RCONNotConnected.
C28_Reconnect ==
    /\ (call.op = "connect" /\ AuthAccepted(call)) =>
          /\ call.exc = "none"
          /\ Ready(St)
          /\ rcon_socket \in open_socks
          /\ ~rcon_failure
          /\ id_seq = 0
    /\ (IsSend /\ call.connected_from >= 0) =>
          /\ Ready(call.before)
          /\ call.exc # "RCONNotConnected"
          /\ Len(call.cmds) > 0 => call.sent # <<>> \/ call.script.send_fail > 0

\* a connect call that succeeded on a client marked failed
C28_Witness ==
    /\ call.op = "connect"
    /\ AuthAccepted(call)
    /\ call.before.rcon_failure
    /\ call.before.rcon_socket = None
    /\ call.exc = "none"
    /\ Ready(St)

\* C31: whenever the blocking client is between two calls, or a call has
\* just returned or raised, a client marked failed holds no socket:
\* rcon_failure implies that rcon_socket is None.
C31_FailedHoldsNoSocket ==
    rcon_failure => rcon_socket = None

\* a send_commands call on a connected client raised and marked the failure
C31_Witness ==
    /\ IsSend
    /\ Ready(call.before)
    /\ call.exc # "none"
    /\ rcon_failure
    /\ rcon_socket = None

\* C32: at any time at most one of the sockets the blocking client opened
\* is open, and it is the one rcon_socket refers to; when rcon_socket is
\* None no socket is open.
C32_OneSocket ==
    /\ Cardinality(open_socks) <= 1
    /\ rcon_socket = None => open_socks = {}
    /\ rcon_socket # None => open_socks = {rcon_socket}

\* a connect call on a connected client returned: the socket of the
\* connection before is closed and the new one is open
C32_Witness ==
    /\ call.op = "connect"
    /\ call.before.rcon_socket # None
    /\ call.before.rcon_socket \in call.before.open_socks
    /\ call.exc = "none"
    /\ rcon_socket # call.before.rcon_socket
    /\ open_socks = {rcon_socket}

\* C35: a send_packet or receive_packet call of the user that raises on a
\* Ready client changes nothing of the client: the socket is held and open,
\* the failure flag is clear, the client is Ready; the send_commands or
\* send_command call that follows is made on the same socket and is not
\* refused.
C35_PacketCallsUnguarded ==
    /\ (/\ call.op \in {"send_packet", "receive_packet"}
        /\ Ready(call.before)
        /\ call.exc # "none") =>
           /\ St = call.before
           /\ Ready(St)
           /\ rcon_socket \in open_socks
    /\ (IsSend /\ call.raised_on # None) =>
           /\ call.before.rcon_socket = call.raised_on
           /\ Ready(call.before)
           /\ call.exc # "RCONNotConnected"
           /\ Len(call.cmds) > 0 => call.sent # <<>> \/ call.script.send_fail > 0

\* a receive_packet call of the user met the peer's close, and the
\* send_commands call that followed it wrote its packets
C35_Witness ==
    /\ call.op = "send_commands"
    /\ call.raised_on # None
    /\ call.before.rcon_socket = call.raised_on
    /\ Len(call.sent) = 2

---------------------------------------------------------------------------
(* Properties of the client with the busy flag (SpecBusy) *)

\* the batch of task t is in flight: it has written a request and has not
\* finished reading its responses
InFlight(t) ==
    /\ tasks[t].op = "send_commands"
    /\ tasks[t].pc \in {"sc_send", "sc_recv"}
    /\ tasks[t].nsent >= 1

\* C3: a send_commands call made on a connected, non-failed client while a
\* send_commands call of another task has not completed fails at once with
\* ClientBusy and writes nothing.  As stated by the claim; SpecBusy reaches
\* a state that violates it.
C3_Original ==
    \A t \in Tasks :
        (tasks[t].op = "send_commands" /\ tasks[t].overlap) =>
            /\ tasks[t].pc = "idle"
            /\ tasks[t].exc = "ClientBusy"
            /\ tasks[t].nsent = 0

\* C4: in no reachable state are the batches of two send_commands calls in
\* flight at once.  As stated by the claim; SpecBusy reaches a state that
\* violates it.
C4_Original ==
    \A t \in Tasks, u \in Tasks : (InFlight(t) /\ InFlight(u)) => t = u

\* task t is rejected with ClientBusy in this step
Rejected(t) ==
    /\ tasks[t].pc = "idle"
    /\ tasks'[t].pc = "idle"
    /\ tasks'[t].op = "send_commands"
    /\ tasks'[t].exc = "ClientBusy"
    /\ tasks'[t] # tasks[t]

\* C33: a step in which a send_commands call is rejected with ClientBusy
\* changes neither the socket, nor the failure flag, nor the counter, nor the
\* busy flag, nor the call of any other task.
C33_RejectionChangesNothing ==
    [][\A t \in Tasks :
          Rejected(t) =>
              /\ UNCHANGED <<rcon_socket, rcon_failure, id_seq, socket_locked,
                             open_socks, sock_count>>
              /\ socket_locked
              /\ \A u \in Tasks \ {t} : tasks'[u] = tasks[u]]_vars

\* a call was rejected with ClientBusy while the call of another task was
\* in flight, and that call returned its results
C33_Witness ==
    \E t \in Tasks : \E u \in Tasks \ {t} :
        /\ tasks[t].op = "send_commands"
        /\ tasks[t].exc = "ClientBusy"
        /\ tasks[t].overlap
        /\ tasks[u].op = "send_commands"
        /\ tasks[u].pc = "idle"
        /\ tasks[u].exc = "none"
        /\ tasks[u].n >= 1
        /\ ~rcon_failure
        /\ rcon_socket \in open_socks


\* C34 as stated: socket_locked is true exactly while a send_commands call
\* is executing.  SpecBusy reaches a state that violates it.
C34_Original ==
    socket_locked <=>
        \E t \in Tasks : tasks[t].op = "send_commands" /\ tasks[t].pc # "idle"

---------------------------------------------------------------------------
(* Properties of the clients on bytes (SpecFrame) *)

\* the bytes end inside one of the next n packets: after packets that
\* parse, fewer than four bytes of a length field, or fewer bytes than the
\* length field declares
RECURSIVE EndsInsidePacket(_, _)
EndsInsidePacket(data, n) ==
    /\ n > 0
    /\ data # <<>>
    /\ \/ Len(data) < 4
       \/ LET length == from_bytes(Take(data, 4))
          IN  \/ Len(data) - 4 < length
              \/ /\ parse_message(Take(data, 4 + length), length).exc = "none"
                 /\ EndsInsidePacket(Drop(data, 4 + length), n - 1)

\* C14: when the peer closes the stream inside a packet (after some of the
\* four bytes of a length field, or after part of the bytes the length
\* field declares), the send_commands call that is reading raises
\* RCONClosed, and the client is failed with its socket closed and dropped.
\* Both classes.
C14_ClosedInsidePacket ==
    (/\ frame.op = "send_commands"
     /\ frame.stream.ending = "closed"
     /\ EndsInsidePacket(frame.stream.data, Len(frame.cmds))) =>
        /\ frame.out.exc = "RCONClosed"
        /\ rcon_failure
        /\ rcon_socket = None
        /\ frame.before.rcon_socket \notin open_socks

\* the peer closed after 3 of the 4 bytes of the length field of the second
\* response of a batch
C14_Witness ==
    /\ frame.op = "send_commands"
    /\ frame.stream.ending = "closed"
    /\ Len(frame.cmds) = 2
    /\ Len(frame.stream.data) > 4
    /\ Len(frame.stream.data) - 7 = from_bytes(Take(frame.stream.data, 4))
    /\ EndsInsidePacket(frame.stream.data, 2)

\* C15: on the same bytes from the server, from the same state, connect and
\* send_commands end in RCONClient and in AsyncRCONClient with the same
\* result or the same kind of error, and the same rcon_socket (present or
\* None), rcon_failure and id_seq.  As stated by the claim; SpecFrame
\* reaches a state that violates it.
C15_Original ==
    frame.op \in {"connect", "send_commands"} =>
        /\ frame.out.exc = frame.other.exc
        /\ frame.out.results = frame.other.results
        /\ (frame.out.st.rcon_socket = None) = (frame.other.st.rcon_socket = None)
        /\ frame.out.st.rcon_failure = frame.other.st.rcon_failure
        /\ frame.out.st.id_seq = frame.other.st.id_seq

\* C16: for a message with a body that is a string (the empty string
\* included), parse_message of build_message of the message is the
\* message.  As stated by the claim; SpecFrame reaches a state that
\* violates it.
C16_Original ==
    (frame.op = "build_message" /\ frame.message.body # NoneStr) =>
        /\ frame.parsed.exc = "none"
        /\ frame.parsed.pkt = frame.message

\* C16 (amended): parse_message of build_message of a message parses, and
\* has the id and the type of the message; its body is the body of the
\* message when that is a non-empty string, and None when it is the empty
\* string or None.
C16_RoundTrip ==
    frame.op = "build_message" =>
        /\ frame.parsed.exc = "none"
        /\ frame.parsed.pkt.id = frame.message.id
        /\ frame.parsed.pkt.type = frame.message.type
        /\ frame.parsed.pkt.body =
              (IF frame.message.body \in {NoneStr, Some(<<>>)} THEN NoneStr
               ELSE frame.message.body)

\* a message with a negative id and a body with a three-byte character was
\* built and parsed back
C16_Witness ==
    /\ frame.op = "build_message"
    /\ frame.message.id = -1
    /\ frame.message.type = INT32_MAX
    /\ frame.message.body = Some(<<"U+20AC", "x", "\n">>)
    /\ frame.parsed.pkt = frame.message

\* the number of bytes of a text in UTF-8
RECURSIVE ByteLength(_)
ByteLength(text) ==
    IF text = <<>> THEN 0
    ELSE (IF CodePoint(Head(text)) < 128 THEN 1
          ELSE IF CodePoint(Head(text)) < 2048 THEN 2
          ELSE IF CodePoint(Head(text)) < 65536 THEN 3 ELSE 4)
         + ByteLength(Tail(text))

\* C17: the length field of the packet build_message makes is 8 + the
\* number of UTF-8 bytes of the body + 2, which is the number of bytes that
\* follow the field, and the packet ends with two NUL bytes.
C17_LengthPrefix ==
    frame.op = "build_message" =>
        LET n == IF frame.message.body = NoneStr THEN 0
                 ELSE ByteLength(frame.message.body[1])
            packet == frame.packet
        IN  /\ unpack_int32(Take(packet, 4)) = 8 + n + 2
            /\ Len(packet) - 4 = 8 + n + 2
            /\ packet[Len(packet)] = 0
            /\ packet[Len(packet) - 1] = 0

\* a packet was built for a body with a character of two bytes
C17_Witness ==
    /\ frame.op = "build_message"
    /\ frame.message.body = Some(<<"c", "1", " ", "U+00E9">>)
    /\ Len(frame.packet) = 19


\* the last two bytes of a byte sequence are both NUL
NulTerminated(message) ==
    /\ Len(message) >= 2
    /\ message[Len(message) - 1] = 0
    /\ message[Len(message)] = 0

\* C24 as stated: parse_message fails with InvalidResponse (PARSE_FAILED) on
\* every byte sequence whose size is not the declared length plus four,
\* whose body is not valid UTF-8, or whose last two bytes are not both NUL.
C24_Original ==
    (/\ frame.op = "parse_message"
     /\ \/ Len(frame.packet) - 4 # frame.length
        \/ ~decode(SubSeq(frame.packet, 13, Len(frame.packet) - 2)).ok
        \/ ~NulTerminated(frame.packet)) =>
        /\ frame.parsed.exc = "InvalidResponse"
        /\ frame.parsed.msg = "PARSE_FAILED"


\* the bytes a receive_packet call took from the stream
Consumed(f) == Len(f.stream.data) - Len(f.got.rest.data)

\* C29: in whatever pieces the transport delivers the bytes, a
\* receive_packet call on a stream that holds a whole packet returns the
\* packet it returns when the bytes arrive all at once, and takes from the
\* stream the four bytes of the length prefix and the number of bytes the
\* prefix declares, leaving the packet that follows untouched.
C29_FramedByLength ==
    (frame.op = "receive_packet" /\ frame.before.rcon_socket # None) =>
        LET length == from_bytes(Take(frame.stream.data, 4))
            whole == receive_packet_in_chunks(frame.variant, frame.stream,
                                              <<RECV_SIZE>>)
        IN  /\ frame.got.exc = whole.exc
            /\ frame.got.pkt = whole.pkt
            /\ frame.got.rest = whole.rest
            /\ frame.got.exc = "none"
            /\ frame.got.pkt = receive_packet_of(frame.variant, frame.stream).pkt
            /\ Consumed(frame) - 4 = length
            /\ frame.got.rest.data = Drop(frame.stream.data, 4 + length)
            /\ LET next == receive_packet_in_chunks(frame.variant,
                               frame.got.rest, frame.chunks)
               IN  Len(frame.got.rest.data) >= 4 + length =>
                      /\ next.exc = "none"
                      /\ next.pkt.id = 2

\* the first packet arrived one byte at a time and the second was not
\* touched
C29_Witness ==
    /\ frame.op = "receive_packet"
    /\ frame.before.rcon_socket # None
    /\ frame.chunks = <<1>>
    /\ frame.got.exc = "none"
    /\ frame.got.pkt.id = 1
    /\ frame.got.pkt.body # NoneStr
    /\ Len(frame.got.rest.data) = Consumed(frame)


---------------------------------------------------------------------------
(* Properties of the asynchronous client without busy flag (SpecAsync) *)

\* the last call of task t is a connect call that returned, no call was
\* made on the client since that connect call began, and the last calls of
\* the other tasks are send_commands calls
ConnectedLast(t) ==
    /\ tasks[t].op = "connect"
    /\ tasks[t].pc = "idle"
    /\ tasks[t].exc = "none"
    /\ \A u \in Tasks \ {t} :
          /\ tasks[u].began < tasks[t].began
          /\ tasks[u].op \in {"none", "send_commands"}

\* C30 as stated: when a connect call has returned and no call was made
\* since it began, the client is Ready and its socket is open, whatever
\* becomes of the send_commands calls that were in flight when the connect
\* call began.
C30_Original ==
    \A t \in Tasks :
        ConnectedLast(t) =>
            /\ Ready(St)
            /\ rcon_socket \in open_socks


---------------------------------------------------------------------------
(* Properties of the reads of send_commands (SpecReads) *)

\* the number of bytes of the first n packets of data
RECURSIVE PacketBytes(_, _)
PacketBytes(data, n) ==
    IF n = 0 \/ Len(data) < 4 THEN 0
    ELSE LET length == from_bytes(Take(data, 4))
         IN  4 + length + PacketBytes(Drop(data, 4 + length), n - 1)

\* C36: a send_commands call with N commands, once its commands are sent,
\* ends, with a mapping or with an exception, provided that every recv call
\* returns and that the server delivers N whole packets or closes; and at
\* no time has the call read a byte beyond the N-th packet of the stream.
C36_Terminates ==
    /\ (tasks.pc \in {"head", "body"}) ~> (tasks.pc = "done")
    /\ [](/\ Len(tasks.responses) <= Len(tasks.cmds)
          /\ tasks.taken <= PacketBytes(tasks.stream, Len(tasks.cmds)))

\* the call returned its mapping of two keys and left the third packet
\* that the server sent unread
C36_Witness ==
    /\ tasks.pc = "done"
    /\ tasks.exc = "none"
    /\ Len(tasks.cmds) = 2
    /\ DOMAIN tasks.results = {1, 2}
    /\ tasks.server = <<>>
    /\ Len(tasks.wire) = PacketBytes(tasks.wire, 1)
    /\ tasks.wire # <<>>

====
